---- MODULE Spec2Model ----
(***************************************************************************)
(* A model of the GrandOrgue real-time sound engine:                       *)
(*   - GOSoundSystem: the N-device audio callback rendezvous and the       *)
(*     open/close, start/stop and organ assignment of the control thread   *)
(*     (specification Spec);                                               *)
(*   - GOSoundOrganEngine: the lifecycle state machine                     *)
(*     (specification SpecEngine);                                         *)
(*   - GOSoundOutputTask: Run / Finish / Reset under concurrent threads    *)
(*     (specification SpecTask);                                           *)
(*   - GOSoundOrganEngine: sampler allocation and the voice queues         *)
(*     (specification SpecVoice).                                          *)
(***************************************************************************)
EXTENDS Integers, Sequences, FiniteSets, TLC

(***************************************************************************)
(* Bounds of the model                                                     *)
(***************************************************************************)
\* the largest number of configured audio output devices
MaxDevices == 2
\* the number of control operations the control thread performs
MaxOps == 3
\* the number of callbacks each device driver issues
MaxCallbacks == 2
\* m_SamplesPerBuffer of the configuration
NSamples == 128
\* the number of operations called on the engine
MaxEngineOps == 7
\* the number of periods the engine is advanced
MaxPeriods == 3
\* the number of worker threads that run the output task
MaxWorkers == 2
\* the number of Resets of the output task
MaxResets == 1
\* the number of inputs the output task mixes
MaxInputs == 2
\* the number of Run and Finish calls on the output task
MaxCalls == 3
\* the number of samplers of the pool, the largest hard polyphony
MaxPolyphony == 2
\* the number of StartPipeSample and StartTremulantSample calls
MaxStarts == 4
\* the number of audio groups
MaxGroups == 2
\* the number of windchests
MaxWindchests == 1
\* the number of tremulants
MaxTremulants == 1

NoOrgan == "null"
LoadedOrgan == "organA"
Organs == {LoadedOrgan, "organB"}

IDLE == "IDLE"
BUILT == "BUILT"
WORKING == "WORKING"
USED == "USED"
LifecycleStates == {IDLE, BUILT, WORKING, USED}

\* the position of a state in enum class LifecycleState { IDLE, BUILT, WORKING, USED }
LifecycleRank(s) == CASE s = IDLE -> 0 [] s = BUILT -> 1 [] s = WORKING -> 2 [] s = USED -> 3

NoOwner == "none"
Ctl == "ctl"
Callback == "callback"

VARIABLES
  \* ---- GOSoundSystem -------------------------------------------------
  nDev,                 \* the number of devices in the audio configuration
  relock,               \* what the mutex of the build does when the thread that
                        \* holds it locks it again: "blocks" or "proceeds"
  m_open,
  m_OrganController,
  m_IsRunning,
  m_NCallbacksEntered,  \* std::atomic_uint, kept as a residue modulo 2^32:
                        \* -k stands for 2^32 - k
  m_CalcCount,
  m_WaitCount,
  m_AudioOutputs,       \* device -> [port, wait, waiting]
  devMutex,             \* device -> the owner of m_AudioOutputs[d].mutex: none,
                        \* the control thread or the callback of the device
  devSignaled,          \* device -> the sleeper on m_AudioOutputs[d].condition was woken
  m_CallbackMutex,      \* the owner of m_CallbackMutex
  ctlSignaled,          \* the sleeper on m_CallbackCondition was woken
  cb,                   \* device -> the position and locals of its AudioCallback
  ctl,                  \* the position and locals of the control thread
  assertFailed,         \* an assert() of the engine has failed
  opsLeft,
  cbLeft,
  \* ---- GOSoundOrganEngine (as seen from GOSoundSystem) ----------------
  m_LifecycleState,
  m_CurrentTime,
  periods,              \* history: NextPeriod calls since the last StartEngine
  ahead,                \* history: device -> the GetAudioOutput calls of the
                        \* device minus the NextPeriod calls of the engine,
                        \* since the last StartEngine
  meterOrder,           \* history: the steps the last arrived callback has done
  \* ---- GOSoundOrganEngine: the lifecycle operations ------------------
  engOp,                \* history: the last operation called on the engine
  engPrev,              \* history: the lifecycle state when it was called
  engServed,            \* what the last GetAudioOutput put into the buffer
  engOpsLeft,
  \* ---- GOSoundOutputTask ---------------------------------------------
  m_Done,               \* std::atomic_bool
  m_Stop,               \* std::atomic_bool
  m_Mutex,              \* the set of threads that hold the mutex of the task
  tpc,                  \* thread -> its position in Run / Finish / Reset
  tlocal,               \* thread -> the locals of its call
  shouldStop,           \* worker thread -> pThread->ShouldStop()
  buffer,               \* the output buffer and the meter: [state, gen]
  generation,           \* the number of Resets that cleared done
  completions,          \* the number of times done was set since the last Reset
  lastReset,            \* what the last Reset left: [seen, done, stop]
  abandons,             \* the generations in which a worker abandoned a Run
  callsLeft,
  \* ---- GOSoundOrganEngine: samplers -----------------------------------
  m_UsageLimit,         \* m_SamplerPool.GetUsageLimit()
  m_PolyphonySoftLimit,
  configured,           \* SetHardPolyphony has been called
  poolUsed,             \* the samplers the pool has handed out
  samplers,             \* sampler -> [taskId, group, release]
  groupTasks,           \* audio group -> the samplers in the queue of its task
  tremulantTasks,       \* tremulant index -> the samplers in the queue of its task
  handles,              \* the values the start calls returned, in order
  withSection,          \* the number of start calls on a provider with a section
  returnedAny,          \* a sampler has been returned to the pool
  lastCall,             \* the last start call: [exhausted, result, unchanged]
  startsLeft,
  \* ---- GOSoundOrganEngine: the voices and their holders ---------------
  samplerState,         \* [voice, free, release, pending, active, acquired]
  issued,               \* the handles the start calls returned: [slot, provider, gen]
  lastAccess,           \* the last StopSample, SwitchSample or UpdateVelocity
  lastPass,             \* the last ProcessSampler or ProcessRelease
  voiceOpsLeft,
  \* ---- GOSoundOrganEngine: what BuildEngine creates -------------------
  engine,               \* the threads, the tasks, the scheduler, the pool
  \* ---- GOSoundOutputTask: the mix, the clamp and the meter ------------
  outTask,              \* [built, nChannels, m_OutputCount, m_ScaleFactors, isDownmix]
  outData,              \* the buffer of the task: item frame * nChannels + channel
  m_MeterInfo,          \* the meter of the task, one entry per channel
  outPeak,              \* history: max |s| of the clamped samples of each channel
  outInfo,              \* history: [runsLeft, clamped, overrun, misplaced]
  \* ---- GOSoundSystem: opening the devices ------------------------------
  openSys,              \* [ports, created, m_LastErrorMessage, logSoundErrors, ...]
  \* ---- GOSoundJackPort ------------------------------------------------
  jack,                 \* [mp_JackClient, m_IsOpen, m_IsStarted, active, thrown, ...]
  \* ---- GOSoundSystem: the worker threads of the engine ------------------
  shut,                 \* [prog, op, givingWork, threads, running, sched, alive, ...]
  \* ---- GOSoundOrganEngine: the conditions and lengths it computes -------
  computed,             \* the last computation: [fn, the inputs, result]
  \* ---- GOSoundOrganEngine: the polyphony meter, step by step -----------
  meter,                \* [m_UsedPolyphony, np, gm, reported, unread, ...]
  \* ---- GORank ----------------------------------------------------------
  rank                  \* [m_StopCount, m_NoteStopVelocities, m_MaxNoteVelocities, ...]

\* the variables of the sound system alone
soundVars == <<nDev, relock, m_open, m_OrganController, m_IsRunning, m_NCallbacksEntered,
               m_CalcCount, m_WaitCount, m_AudioOutputs, devMutex, devSignaled,
               m_CallbackMutex, ctlSignaled, cb, ctl, opsLeft, cbLeft, ahead,
               meterOrder>>
\* the state of the engine that the sound system and the lifecycle share
lifeVars == <<m_LifecycleState, m_CurrentTime, periods, assertFailed>>
engVars == <<engOp, engPrev, engServed, engOpsLeft>>
taskVars == <<m_Done, m_Stop, m_Mutex, tpc, tlocal, shouldStop, buffer, generation,
              completions, lastReset, abandons, callsLeft>>
voiceVars == <<m_UsageLimit, m_PolyphonySoftLimit, configured, poolUsed, samplers,
               groupTasks, tremulantTasks, handles, withSection, returnedAny,
               lastCall, startsLeft>>

sampVars == <<samplerState, issued, lastAccess, lastPass, voiceOpsLeft>>
\* the variables of the parts of the engine that are modelled on their own
resVars == <<engine>>
outVars == <<outTask, outData, m_MeterInfo, outPeak, outInfo>>
\* the variables of the parts of the sound system that are modelled on their own
auxVars == <<computed, meter, rank>>
extVars == <<openSys, jack, shut, auxVars>>
restVars == <<sampVars, resVars, outVars, extVars>>

vars == <<soundVars, lifeVars, engVars, taskVars, voiceVars, restVars>>

\* the threads that call the output task: thread 0 is the audio thread, which
\* passes no pThread; the others are the worker threads
Threads == 0 .. MaxWorkers
Workers == 1 .. MaxWorkers
IdleThread ==
  [op |-> "none", locked |-> FALSE, j |-> 0, doneAtStart |-> FALSE, startGen |-> 0,
   waited |-> FALSE]
NoReset == [seen |-> FALSE, done |-> FALSE, stop |-> FALSE]

\* the samplers of the pool, the audio groups, the windchests and the tremulants
Samplers == 1 .. MaxPolyphony
AudioGroups == 0 .. (MaxGroups - 1)
Windchests == 0 .. (MaxWindchests - 1)
Tremulants == 1 .. MaxTremulants
TremulantTasks == 0 .. (MaxTremulants - 1)
\* GOSoundSampler *sampler = nullptr
NullSampler == 0
FreeSampler == [taskId |-> 0, group |-> 0, release |-> FALSE]
\* what the provider returns for the start request: no section, or a section
\* with its number of channels
NoSection == [found |-> FALSE, channels |-> 0]
Sections == {NoSection} \cup {[found |-> TRUE, channels |-> c] : c \in {0, 2}}

NoCall == [exhausted |-> FALSE, result |-> NullSampler, unchanged |-> TRUE,
           section |-> NoSection]
\* m_SamplerPool.SetUsageLimit(2048) of the constructor
DefaultUsageLimit == 2048
\* m_PolyphonySoftLimit = (m_SamplerPool.GetUsageLimit() * 3) / 4
SoftLimit(limit) == (limit * 3) \div 4

\* no thread is in the output task
TaskUntouched(calls) ==
  /\ m_Done = FALSE
  /\ m_Stop = FALSE
  /\ m_Mutex = {}
  /\ tpc = [t \in Threads |-> "idle"]
  /\ tlocal = [t \in Threads |-> IdleThread]
  /\ shouldStop = [t \in Workers |-> FALSE]
  /\ buffer = [state |-> "init", gen |-> 0]
  /\ generation = 0
  /\ completions = 0
  /\ lastReset = NoReset
  /\ abandons = {}
  /\ callsLeft = calls

\* the engine as constructed: no sampler is in use
VoicesUntouched(starts) ==
  /\ m_UsageLimit = DefaultUsageLimit
  /\ m_PolyphonySoftLimit = SoftLimit(DefaultUsageLimit)
  /\ configured = FALSE
  /\ poolUsed = {}
  /\ samplers = [x \in Samplers |-> FreeSampler]
  /\ groupTasks = [g \in AudioGroups |-> {}]
  /\ tremulantTasks = [k \in TremulantTasks |-> {}]
  /\ handles = <<>>
  /\ withSection = 0
  /\ returnedAny = FALSE
  /\ lastCall = NoCall
  /\ startsLeft = starts

\* static constexpr int DETACHED_RELEASE_TASK_ID = 0
DETACHED_RELEASE_TASK_ID == 0
\* the sound providers (pipes and tremulants) a voice can play
NoProvider == "NULL"
PipeProviders == {"pipeA"}
TremulantProviders == {"tremulantA"}
\* the tasks that hold voices: the audio group tasks, then the tremulant tasks
GroupKey(g) == g
TremulantKey(k) == MaxGroups + k
VoiceTasks == 0 .. (MaxGroups + MaxTremulants - 1)
\* a slot as the pool hands it out: every field is reset
ResetSampler ==
  [p_SoundProvider |-> NoProvider, time |-> 0, stop |-> 0, new_attack |-> 0,
   delay |-> 0, is_release |-> FALSE, m_SamplerTaskId |-> 0,
   m_AudioGroupId |-> 0, velocity |-> 0,
   \* the fader: the samples of the ramp of the last Setup, and whether a
   \* StartDecreasingVolume is in force and over how many samples
   fadeIn |-> 0, decaying |-> FALSE, decay |-> 0]
NoAccess ==
  [op |-> "none", matched |-> FALSE, stale |-> FALSE, mutated |-> FALSE,
   time |-> 0, before |-> ResetSampler, after |-> ResetSampler, result |-> 0,
   othersKept |-> TRUE]
NoVoices == [s \in Samplers |-> 0]
\* no ProcessSampler and no ProcessRelease was the last step
NoPass ==
  [op |-> "none", sampler |-> NullSampler, now |-> 0, before |-> ResetSampler,
   after |-> ResetSampler, due |-> FALSE, silent |-> FALSE, emitted |-> FALSE,
   advanced |-> FALSE, accelerated |-> FALSE, toRelease |-> FALSE,
   returned |-> FALSE, kept |-> FALSE, used |-> 0, usedAfter |-> 0,
   drop_counter |-> 0,
   branch |-> "none", hasSection |-> FALSE, vol |-> FALSE, poolFree |-> FALSE,
   spawned |-> NullSampler, spawnedVoice |-> ResetSampler, passed |-> 0,
   passedOther |-> 0, spawnedTo |-> 0 - 1]

\* the engine as constructed: every slot is in the free list of the pool;
\* history: whether the history of the passes is kept (lastPass, seenSilent,
\* spawns)
SamplersFresh(ops, history) ==
  /\ samplerState =
       [history |-> history,
        voice |-> [s \in Samplers |-> ResetSampler],
        free |-> [s \in Samplers |-> 1],
        release |-> NoVoices,
        pending |-> [t \in VoiceTasks |-> NoVoices],
        active |-> [t \in VoiceTasks |-> NoVoices],
        acquired |-> [s \in Samplers |-> 0],
        seenSilent |-> [s \in Samplers |-> FALSE],
        spawns |-> [s \in Samplers |-> 0]]
  /\ issued = {}
  /\ lastAccess = NoAccess
  /\ lastPass = NoPass
  /\ voiceOpsLeft = ops
SamplersUntouched(ops) == SamplersFresh(ops, FALSE)

\* the engine as constructed: no thread, no task, nothing in the scheduler
NoEngine(givingWork) ==
  [mp_threads |-> 0, mp_AudioGroupTasks |-> 0, mp_AudioOutputTasks |-> 0,
   mp_DownmixTask |-> FALSE, mp_TremulantTasks |-> 0, mp_WindchestTasks |-> 0,
   scheduled |-> 0, givingWork |-> givingWork, m_UsedPolyphony |-> 0,
   usedSamplers |-> 0,
   before |-> [time |-> 0, usedSamplers |-> 0, m_UsedPolyphony |-> 0]]

\* no output task has been built
NoOutputTask ==
  [built |-> FALSE, nChannels |-> 0, m_OutputCount |-> 0, m_ScaleFactors |-> <<>>,
   isDownmix |-> FALSE]
OutputUntouched(runs) ==
  /\ outTask = NoOutputTask
  /\ outData = <<>>
  /\ m_MeterInfo = <<>>
  /\ outPeak = <<>>
  /\ outInfo = [runsLeft |-> runs, clamped |-> FALSE, overrun |-> FALSE,
                misplaced |-> FALSE]

\* wxEmptyString
NoMessage == ""
\* no port object exists
NoPorts == [d \in 0 .. (MaxDevices - 1) |-> "null"]
\* the sound system after its constructor, before any device was opened
NeverOpened(ops) ==
  [ports |-> NoPorts, created |-> {}, m_LastErrorMessage |-> NoMessage,
   logSoundErrors |-> TRUE, shown |-> NoMessage, thrown |-> NoMessage,
   lastOp |-> "none", returned |-> FALSE, opsLeft |-> ops]
\* a Jack port after Init(channels, sampleRate, samplesPerBuffer, ...): no
\* client, not open, not started; the server runs with serverRate and
\* serverSize
JackPortInited(channels, sampleRate, samplesPerBuffer, ops) ==
  [m_Channels |-> channels, m_SampleRate |-> sampleRate,
   m_SamplesPerBuffer |-> samplesPerBuffer, mp_JackClient |-> FALSE,
   active |-> FALSE, m_IsOpen |-> FALSE, m_IsStarted |-> FALSE, mp_JackOutPorts |-> 0,
   mp_GoBuffer |-> FALSE, serverRate |-> sampleRate, serverSize |-> samplesPerBuffer,
   thrown |-> NoMessage, lastOp |-> "none", opsLeft |-> ops]
\* the tasks of the engine that the scheduler hands to the worker threads, by
\* the member of GOSoundSystem that owns them
TaskKinds == {"windchest", "tremulant", "downmix", "output", "group"}
NoTask == "none"
\* no engine was built yet: no worker thread, no task, an empty scheduler
NoThreads(givingWork, ops, periodsLeft) ==
  [prog |-> <<>>, op |-> "none", givingWork |-> givingWork, nThreads |-> 0,
   threads |-> {}, running |-> [w \in Workers |-> NoTask], sched |-> {},
   alive |-> {}, done |-> {}, busyAtPause |-> FALSE, opsLeft |-> ops,
   periodsLeft |-> periodsLeft]
\* nothing was computed yet; hard and soft: the polyphony limits
NoCalc(hard, ops) ==
  [fn |-> "none", hard |-> hard, soft |-> SoftLimit(hard), is_release |-> FALSE,
   limiting |-> FALSE, used |-> 0, age |-> 0, drop_counter |-> 0,
   scaled |-> FALSE, not_a_tremulant |-> FALSE, time |-> 0, length |-> 0,
   sampleRate |-> 0, releaseLength |-> 0, result |-> 0, opsLeft |-> ops]
\* the audio thread and the thread of the GUI are outside NextPeriod and
\* GetMeterInfo; unread: the largest usage a completed NextPeriod has
\* published since GetMeterInfo last read the counter
NoMeter(ops) ==
  [m_UsedPolyphony |-> 0, np |-> [pc |-> "idle", usedSamplers |-> 0],
   gm |-> [pc |-> "idle", loaded |-> 0], reported |-> 0, unread |-> 0,
   owed |-> 0, opsLeft |-> ops]
\* a rank as constructed: no pipe, no stop, empty vectors
NoRank ==
  [nPipes |-> 0, m_StopCount |-> 0, m_NoteStopVelocities |-> <<>>,
   m_MaxNoteVelocities |-> <<>>, pipeVelocity |-> <<>>, prepared |-> FALSE,
   last |-> [op |-> "none", note |-> 0, velocity |-> 0, stopID |-> 0,
             oldMax |-> 0, called |-> FALSE]]
AuxUntouched ==
  /\ computed = NoCalc(DefaultUsageLimit, 0)
  /\ meter = NoMeter(0)
  /\ rank = NoRank
ExtUntouched ==
  /\ openSys = NeverOpened(0)
  /\ jack = JackPortInited(0, 0, 0, 0)
  /\ shut = NoThreads(FALSE, 0, 0)
  /\ AuxUntouched

RestUntouched ==
  /\ SamplersUntouched(0)
  /\ engine = NoEngine(FALSE)
  /\ OutputUntouched(0)
  /\ ExtUntouched

Devices == 0 .. (MaxDevices - 1)
Devs == 0 .. (nDev - 1)

\* m_AudioOutputs.size()
NOutputs == IF m_open THEN nDev ELSE 0

\* the value an unsigned counter holds after one more is added or taken
UAdd(x, k) == x + k
\* x > 0 of an unsigned counter
UPositive(x) == x # 0
\* x <= 1 of an unsigned counter
UAtMostOne(x) == x \in {0, 1}

\* framesOk: nSamples == m_SamplesPerBuffer as the callback found it (TRUE
\* where the callback did not compare); returned: the value of its last return
IdleCb == [pc |-> "idle", wasEntered |-> FALSE, cnt |-> 0, count |-> 0, i |-> 0,
           served |-> "none", framesOk |-> TRUE, returned |-> "none"]

\* return true; the buffer of the callback holds what was served
Return(served) == [IdleCb EXCEPT !.served = served, !.returned = "true"]
IdleCtl == [pc |-> "idle", op |-> "none", arg |-> NoOrgan, i |-> 0]

\* GOMutex::Lock returns: the mutex is free, or the thread itself holds it
\* and the mutex of the build lets the second lock go on
LockReturns(owner, thread, relockMode) ==
  owner = NoOwner \/ (owner = thread /\ relockMode = "proceeds")

\* a thread sleeps in m_AudioOutputs[d].condition.Wait(): Signal and
\* Broadcast wake a sleeper and are lost when there is none
Sleeps(d) == cb[d].pc = "cb_sleep"

(***************************************************************************)
(* GOSoundSystem::AudioCallback, one step per access of shared state       *)
(***************************************************************************)

\* a callback that is let in with any frame count
AdmittedAnyFrames(isRunning, framesOk) == isRunning

\* if (m_IsRunning.load()) { if (nSamples == m_SamplesPerBuffer) ...
Admitted(isRunning, framesOk) == isRunning /\ framesOk

\* while (device.wait && device.waiting) device.condition.Wait();
GateBlocks(output) == output.wait /\ output.waiting

\* cnt + 1 >= m_AudioOutputs.size()
IsLast(cnt, size) == cnt + 1 >= size

\* if (count + 1 == m_AudioOutputs.size())
IsLastArrived(count, size) == count + 1 = size

\* if (m_LifecycleState.load() == LifecycleState::WORKING)
ServesAudio(state) == state = WORKING

\* the driver of device d calls AudioCallback; the callback loads m_IsRunning
\* and compares the frame count. A callback that is not admitted fills its
\* buffer with silence and returns true.
CbArrive(d, framesOk) ==
  /\ ~assertFailed
  /\ d \in Devs
  /\ cb[d].pc = "idle"
  /\ m_AudioOutputs[d].port
  /\ cbLeft[d] > 0
  /\ cbLeft' = [cbLeft EXCEPT ![d] = @ - 1]
  /\ cb' = [cb EXCEPT ![d] =
       IF Admitted(m_IsRunning, framesOk)
       THEN [IdleCb EXCEPT !.pc = "cb_enter", !.framesOk = framesOk]
       ELSE [Return("silence") EXCEPT !.framesOk = ~m_IsRunning \/ framesOk]]
  /\ UNCHANGED <<engVars, taskVars, voiceVars, restVars, nDev, relock, m_open, m_OrganController, m_IsRunning, m_NCallbacksEntered,
                 m_CalcCount, m_WaitCount, m_AudioOutputs, devMutex, devSignaled,
                 m_CallbackMutex, ctlSignaled, ctl, assertFailed, opsLeft,
                 m_LifecycleState, m_CurrentTime, periods, ahead, meterOrder>>

\* m_NCallbacksEntered.fetch_add(1); wasEntered = true;
CbEnter(d) ==
  /\ ~assertFailed
  /\ d \in Devs
  /\ cb[d].pc = "cb_enter"
  /\ m_NCallbacksEntered' = UAdd(m_NCallbacksEntered, 1)
  /\ cb' = [cb EXCEPT ![d].pc = "cb_load2", ![d].wasEntered = TRUE]
  /\ UNCHANGED <<engVars, taskVars, voiceVars, restVars, nDev, relock, m_open, m_OrganController, m_IsRunning,
                 m_CalcCount, m_WaitCount, m_AudioOutputs, devMutex, devSignaled,
                 m_CallbackMutex, ctlSignaled, ctl, assertFailed, opsLeft, cbLeft,
                 m_LifecycleState, m_CurrentTime, periods, ahead, meterOrder>>

\* if (wasEntered && m_IsRunning.load()) ... else outBuffer.FillWithSilence();
CbLoad2(d) ==
  /\ ~assertFailed
  /\ d \in Devs
  /\ cb[d].pc = "cb_load2"
  /\ cb' = [cb EXCEPT ![d].pc = IF m_IsRunning THEN "cb_lock" ELSE "cb_exit",
                      ![d].served = IF m_IsRunning THEN "none" ELSE "silence"]
  /\ UNCHANGED <<engVars, taskVars, voiceVars, restVars, nDev, relock, m_open, m_OrganController, m_IsRunning, m_NCallbacksEntered,
                 m_CalcCount, m_WaitCount, m_AudioOutputs, devMutex, devSignaled,
                 m_CallbackMutex, ctlSignaled, ctl, assertFailed, opsLeft, cbLeft,
                 m_LifecycleState, m_CurrentTime, periods, ahead, meterOrder>>

\* GOMutexLocker locker(device.mutex);
CbLock(d) ==
  /\ ~assertFailed
  /\ d \in Devs
  /\ cb[d].pc = "cb_lock"
  /\ devMutex[d] = NoOwner
  /\ devMutex' = [devMutex EXCEPT ![d] = Callback]
  /\ cb' = [cb EXCEPT ![d].pc = "cb_gate"]
  /\ UNCHANGED <<engVars, taskVars, voiceVars, restVars, nDev, relock, m_open, m_OrganController, m_IsRunning, m_NCallbacksEntered,
                 m_CalcCount, m_WaitCount, m_AudioOutputs, devSignaled,
                 m_CallbackMutex, ctlSignaled, ctl, assertFailed, opsLeft, cbLeft,
                 m_LifecycleState, m_CurrentTime, periods, ahead, meterOrder>>

\* while (device.wait && device.waiting) device.condition.Wait();
\* Wait releases the mutex and sleeps until the condition is signalled.
CbGate(d) ==
  /\ ~assertFailed
  /\ d \in Devs
  /\ cb[d].pc = "cb_gate"
  /\ IF GateBlocks(m_AudioOutputs[d])
     THEN /\ devMutex' = [devMutex EXCEPT ![d] = NoOwner]
          /\ devSignaled' = [devSignaled EXCEPT ![d] = FALSE]
          /\ cb' = [cb EXCEPT ![d].pc = "cb_sleep"]
     ELSE /\ cb' = [cb EXCEPT ![d].pc = "cb_calc"]
          /\ UNCHANGED <<devMutex, devSignaled>>
  /\ UNCHANGED <<engVars, taskVars, voiceVars, restVars, nDev, relock, m_open, m_OrganController, m_IsRunning, m_NCallbacksEntered,
                 m_CalcCount, m_WaitCount, m_AudioOutputs,
                 m_CallbackMutex, ctlSignaled, ctl, assertFailed, opsLeft, cbLeft,
                 m_LifecycleState, m_CurrentTime, periods, ahead, meterOrder>>

\* the return of device.condition.Wait(): the sleeper was signalled and takes
\* the mutex again
CbWake(d) ==
  /\ ~assertFailed
  /\ d \in Devs
  /\ cb[d].pc = "cb_sleep"
  /\ devSignaled[d]
  /\ devMutex[d] = NoOwner
  /\ devMutex' = [devMutex EXCEPT ![d] = Callback]
  /\ devSignaled' = [devSignaled EXCEPT ![d] = FALSE]
  /\ cb' = [cb EXCEPT ![d].pc = "cb_gate"]
  /\ UNCHANGED <<engVars, taskVars, voiceVars, restVars, nDev, relock, m_open, m_OrganController, m_IsRunning, m_NCallbacksEntered,
                 m_CalcCount, m_WaitCount, m_AudioOutputs,
                 m_CallbackMutex, ctlSignaled, ctl, assertFailed, opsLeft, cbLeft,
                 m_LifecycleState, m_CurrentTime, periods, ahead, meterOrder>>

\* unsigned cnt = m_CalcCount.fetch_add(1);
CbCalc(d) ==
  /\ ~assertFailed
  /\ d \in Devs
  /\ cb[d].pc = "cb_calc"
  /\ m_CalcCount' = m_CalcCount + 1
  /\ cb' = [cb EXCEPT ![d].pc = "cb_get", ![d].cnt = m_CalcCount]
  /\ UNCHANGED <<engVars, taskVars, voiceVars, restVars, nDev, relock, m_open, m_OrganController, m_IsRunning, m_NCallbacksEntered,
                 m_WaitCount, m_AudioOutputs, devMutex, devSignaled,
                 m_CallbackMutex, ctlSignaled, ctl, assertFailed, opsLeft, cbLeft,
                 m_LifecycleState, m_CurrentTime, periods, ahead, meterOrder>>

\* m_SoundEngine.GetAudioOutput(devIndex, cnt + 1 >= size, outBuffer): the
\* entry. The engine looks at its lifecycle state and either finishes the
\* output task of the device or fills the buffer with silence.
CbGetAudioOutput(d) ==
  /\ ~assertFailed
  /\ d \in Devs
  /\ cb[d].pc = "cb_get"
  /\ cb' = [cb EXCEPT ![d].pc = "cb_in_get",
                      ![d].served = IF ServesAudio(m_LifecycleState)
                                    THEN "audio" ELSE "silence"]
  /\ ahead' = [ahead EXCEPT ![d] = @ + 1]
  /\ UNCHANGED <<engVars, taskVars, voiceVars, restVars, nDev, relock, m_open, m_OrganController, m_IsRunning, m_NCallbacksEntered,
                 m_CalcCount, m_WaitCount, m_AudioOutputs, devMutex, devSignaled,
                 m_CallbackMutex, ctlSignaled, ctl, assertFailed, opsLeft, cbLeft,
                 m_LifecycleState, m_CurrentTime, periods, meterOrder>>

\* the return of GetAudioOutput
CbGotAudioOutput(d) ==
  /\ ~assertFailed
  /\ d \in Devs
  /\ cb[d].pc = "cb_in_get"
  /\ cb' = [cb EXCEPT ![d].pc = "cb_setwait"]
  /\ UNCHANGED <<engVars, taskVars, voiceVars, restVars, nDev, relock, m_open, m_OrganController, m_IsRunning, m_NCallbacksEntered,
                 m_CalcCount, m_WaitCount, m_AudioOutputs, devMutex, devSignaled,
                 m_CallbackMutex, ctlSignaled, ctl, assertFailed, opsLeft, cbLeft,
                 m_LifecycleState, m_CurrentTime, periods, ahead, meterOrder>>

\* device.wait = true; unsigned count = m_WaitCount.fetch_add(1);
\* if (count + 1 == m_AudioOutputs.size()) ...
CbWaitCount(d) ==
  /\ ~assertFailed
  /\ d \in Devs
  /\ cb[d].pc = "cb_setwait"
  /\ m_AudioOutputs' = [m_AudioOutputs EXCEPT ![d].wait = TRUE]
  /\ m_WaitCount' = m_WaitCount + 1
  /\ cb' = [cb EXCEPT ![d].count = m_WaitCount,
                      ![d].pc = IF IsLastArrived(m_WaitCount, NOutputs)
                                THEN "cb_next" ELSE "cb_unlock"]
  /\ meterOrder' = IF IsLastArrived(m_WaitCount, NOutputs) THEN <<>> ELSE meterOrder
  /\ UNCHANGED <<engVars, taskVars, voiceVars, restVars, nDev, relock, m_open, m_OrganController, m_IsRunning, m_NCallbacksEntered,
                 m_CalcCount, devMutex, devSignaled,
                 m_CallbackMutex, ctlSignaled, ctl, assertFailed, opsLeft, cbLeft,
                 m_LifecycleState, m_CurrentTime, periods, ahead>>

\* m_SoundEngine.NextPeriod(): the entry (m_Scheduler.Exec())
CbNextPeriod(d) ==
  /\ ~assertFailed
  /\ d \in Devs
  /\ cb[d].pc = "cb_next"
  /\ cb' = [cb EXCEPT ![d].pc = "cb_in_next"]
  /\ UNCHANGED <<engVars, taskVars, voiceVars, restVars, nDev, relock, m_open, m_OrganController, m_IsRunning, m_NCallbacksEntered,
                 m_CalcCount, m_WaitCount, m_AudioOutputs, devMutex, devSignaled,
                 m_CallbackMutex, ctlSignaled, ctl, assertFailed, opsLeft, cbLeft,
                 m_LifecycleState, m_CurrentTime, periods, ahead, meterOrder>>

\* m_CurrentTime += m_NSamplesPerBuffer;
NextTime(time, nSamplesPerBuffer, nOutputs) == time + nSamplesPerBuffer

\* an entry of meterOrder: a step of the last arrived callback, and for the
\* release of the gate of device i the counters as they were at that moment
PeriodStep(name) == [step |-> name, i |-> 0, calc |-> 0, wait |-> 0]
GateReleased(i, calc, wait) == [step |-> "Release", i |-> i, calc |-> calc, wait |-> wait]

\* m_CalcCount.exchange(0); m_WaitCount.exchange(0);
ExchangeZero(counter) == 0

\* the rest of NextPeriod: the time advance, the peak polyphony, Scheduler.Reset
CbNextPeriodDone(d) ==
  /\ ~assertFailed
  /\ d \in Devs
  /\ cb[d].pc = "cb_in_next"
  /\ m_CurrentTime' = NextTime(m_CurrentTime, NSamples, NOutputs)
  /\ periods' = periods + 1
  /\ ahead' = [e \in Devices |-> IF e \in Devs THEN ahead[e] - 1 ELSE ahead[e]]
  /\ meterOrder' = Append(meterOrder, PeriodStep("NextPeriod"))
  /\ cb' = [cb EXCEPT ![d].pc = "cb_meter"]
  /\ UNCHANGED <<engVars, taskVars, voiceVars, restVars, nDev, relock, m_open, m_OrganController, m_IsRunning, m_NCallbacksEntered,
                 m_CalcCount, m_WaitCount, m_AudioOutputs, devMutex, devSignaled,
                 m_CallbackMutex, ctlSignaled, ctl, assertFailed, opsLeft, cbLeft,
                 m_LifecycleState>>

\* UpdateMeter(); m_SoundEngine.WakeupThreads();
CbUpdateMeter(d) ==
  /\ ~assertFailed
  /\ d \in Devs
  /\ cb[d].pc = "cb_meter"
  /\ meterOrder' = meterOrder \o <<PeriodStep("UpdateMeter"), PeriodStep("WakeupThreads")>>
  /\ cb' = [cb EXCEPT ![d].pc = "cb_resetcalc"]
  /\ UNCHANGED <<engVars, taskVars, voiceVars, restVars, nDev, relock, m_open, m_OrganController, m_IsRunning, m_NCallbacksEntered,
                 m_CalcCount, m_WaitCount, m_AudioOutputs, devMutex, devSignaled,
                 m_CallbackMutex, ctlSignaled, ctl, assertFailed, opsLeft, cbLeft,
                 m_LifecycleState, m_CurrentTime, periods, ahead>>

\* m_CalcCount.exchange(0);
CbResetCalc(d) ==
  /\ ~assertFailed
  /\ d \in Devs
  /\ cb[d].pc = "cb_resetcalc"
  /\ m_CalcCount' = ExchangeZero(m_CalcCount)
  /\ meterOrder' = Append(meterOrder, PeriodStep("ResetCalcCount"))
  /\ cb' = [cb EXCEPT ![d].pc = "cb_resetwait"]
  /\ UNCHANGED <<engVars, taskVars, voiceVars, restVars, nDev, relock, m_open, m_OrganController, m_IsRunning, m_NCallbacksEntered,
                 m_WaitCount, m_AudioOutputs, devMutex, devSignaled,
                 m_CallbackMutex, ctlSignaled, ctl, assertFailed, opsLeft, cbLeft,
                 m_LifecycleState, m_CurrentTime, periods, ahead>>

\* m_WaitCount.exchange(0);
CbResetWait(d) ==
  /\ ~assertFailed
  /\ d \in Devs
  /\ cb[d].pc = "cb_resetwait"
  /\ m_WaitCount' = ExchangeZero(m_WaitCount)
  /\ meterOrder' = Append(meterOrder, PeriodStep("ResetWaitCount"))
  /\ cb' = [cb EXCEPT ![d].pc = "cb_release", ![d].i = 0]
  /\ UNCHANGED <<engVars, taskVars, voiceVars, restVars, nDev, relock, m_open, m_OrganController, m_IsRunning, m_NCallbacksEntered,
                 m_CalcCount, m_AudioOutputs, devMutex, devSignaled,
                 m_CallbackMutex, ctlSignaled, ctl, assertFailed, opsLeft, cbLeft,
                 m_LifecycleState, m_CurrentTime, periods, ahead>>

\* for (i = 0; i < size; i++) { GOMutexLocker lock(m_AudioOutputs[i].mutex,
\* i == devIndex); m_AudioOutputs[i].wait = false; condition.Signal(); }
\* The lock of the own device is a try-lock that fails (the callback holds
\* that mutex already); the lock of another device blocks.
CbRelease(d) ==
  /\ ~assertFailed
  /\ d \in Devs
  /\ cb[d].pc = "cb_release"
  /\ IF cb[d].i < NOutputs
     THEN /\ cb[d].i = d \/ devMutex[cb[d].i] = NoOwner
          /\ m_AudioOutputs' = [m_AudioOutputs EXCEPT ![cb[d].i].wait = FALSE]
          /\ devSignaled' = [devSignaled EXCEPT ![cb[d].i] = Sleeps(cb[d].i)]
          /\ meterOrder' = Append(meterOrder, GateReleased(cb[d].i, m_CalcCount, m_WaitCount))
          /\ cb' = [cb EXCEPT ![d].i = @ + 1]
     ELSE /\ cb' = [cb EXCEPT ![d].pc = "cb_unlock"]
          /\ UNCHANGED <<m_AudioOutputs, devSignaled, meterOrder>>
  /\ UNCHANGED <<engVars, taskVars, voiceVars, restVars, nDev, relock, m_open, m_OrganController, m_IsRunning, m_NCallbacksEntered,
                 m_CalcCount, m_WaitCount, devMutex,
                 m_CallbackMutex, ctlSignaled, ctl, assertFailed, opsLeft, cbLeft,
                 m_LifecycleState, m_CurrentTime, periods, ahead>>

\* the end of the scope of locker
CbUnlock(d) ==
  /\ ~assertFailed
  /\ d \in Devs
  /\ cb[d].pc = "cb_unlock"
  /\ devMutex' = [devMutex EXCEPT ![d] = NoOwner]
  /\ cb' = [cb EXCEPT ![d].pc = "cb_exit"]
  /\ UNCHANGED <<engVars, taskVars, voiceVars, restVars, nDev, relock, m_open, m_OrganController, m_IsRunning, m_NCallbacksEntered,
                 m_CalcCount, m_WaitCount, m_AudioOutputs, devSignaled,
                 m_CallbackMutex, ctlSignaled, ctl, assertFailed, opsLeft, cbLeft,
                 m_LifecycleState, m_CurrentTime, periods, ahead, meterOrder>>

\* wasEntered && m_NCallbacksEntered.fetch_sub(1) <= 1 && ...
CbExit(d) ==
  /\ ~assertFailed
  /\ d \in Devs
  /\ cb[d].pc = "cb_exit"
  /\ m_NCallbacksEntered' = UAdd(m_NCallbacksEntered, -1)
  /\ cb' = [cb EXCEPT ![d] =
       IF UAtMostOne(m_NCallbacksEntered)
       THEN [cb[d] EXCEPT !.pc = "cb_load3"]
       ELSE Return(cb[d].served)]
  /\ UNCHANGED <<engVars, taskVars, voiceVars, restVars, nDev, relock, m_open, m_OrganController, m_IsRunning,
                 m_CalcCount, m_WaitCount, m_AudioOutputs, devMutex, devSignaled,
                 m_CallbackMutex, ctlSignaled, ctl, assertFailed, opsLeft, cbLeft,
                 m_LifecycleState, m_CurrentTime, periods, ahead, meterOrder>>

\* ... && !m_IsRunning.load()
CbLoad3(d) ==
  /\ ~assertFailed
  /\ d \in Devs
  /\ cb[d].pc = "cb_load3"
  /\ cb' = [cb EXCEPT ![d] =
       IF ~m_IsRunning
       THEN [cb[d] EXCEPT !.pc = "cb_notify"]
       ELSE Return(cb[d].served)]
  /\ UNCHANGED <<engVars, taskVars, voiceVars, restVars, nDev, relock, m_open, m_OrganController, m_IsRunning, m_NCallbacksEntered,
                 m_CalcCount, m_WaitCount, m_AudioOutputs, devMutex, devSignaled,
                 m_CallbackMutex, ctlSignaled, ctl, assertFailed, opsLeft, cbLeft,
                 m_LifecycleState, m_CurrentTime, periods, ahead, meterOrder>>

\* GOMutexLocker lk(m_CallbackMutex); m_CallbackCondition.Broadcast();
CbNotify(d) ==
  /\ ~assertFailed
  /\ d \in Devs
  /\ cb[d].pc = "cb_notify"
  /\ m_CallbackMutex = NoOwner
  /\ ctlSignaled' = (ctl.pc = "stop_sleep")
  /\ cb' = [cb EXCEPT ![d] = Return(cb[d].served)]
  /\ UNCHANGED <<engVars, taskVars, voiceVars, restVars, nDev, relock, m_open, m_OrganController, m_IsRunning, m_NCallbacksEntered,
                 m_CalcCount, m_WaitCount, m_AudioOutputs, devMutex, devSignaled,
                 m_CallbackMutex, ctl, assertFailed, opsLeft, cbLeft,
                 m_LifecycleState, m_CurrentTime, periods, ahead, meterOrder>>

(***************************************************************************)
(* The control thread: AssureSoundIsOpen, AssureSoundIsClosed and          *)
(* AssignOrganFile, with the functions they call                           *)
(***************************************************************************)

OpenOutputs == [d \in Devices |-> [port |-> d \in Devs, wait |-> FALSE, waiting |-> FALSE]]
NoOutputs == [d \in Devices |-> [port |-> FALSE, wait |-> FALSE, waiting |-> FALSE]]

\* bool AssureSoundIsOpen(): if (!m_open) OpenSoundSystem(); the ports are
\* created, initialised and started, and m_open becomes true.
\* if (m_open && m_OrganController) BuildAndStartEngine() ...
AssureSoundIsOpen ==
  /\ ~assertFailed
  /\ ctl.pc = "idle"
  /\ opsLeft > 0
  /\ opsLeft' = opsLeft - 1
  /\ m_open' = TRUE
  /\ m_AudioOutputs' = IF m_open THEN m_AudioOutputs ELSE OpenOutputs
  /\ ctl' = IF m_OrganController # NoOrgan
            THEN [IdleCtl EXCEPT !.pc = "build", !.op = "AssureSoundIsOpen"]
            ELSE IdleCtl
  /\ UNCHANGED <<engVars, taskVars, voiceVars, restVars, nDev, relock, m_OrganController, m_IsRunning, m_NCallbacksEntered,
                 m_CalcCount, m_WaitCount, devMutex, devSignaled,
                 m_CallbackMutex, ctlSignaled, cb, assertFailed, cbLeft,
                 m_LifecycleState, m_CurrentTime, periods, ahead, meterOrder>>

\* void AssureSoundIsClosed(): if (m_open) { if (m_OrganController) {
\* NotifySoundIsClosing(); StopSoundSystem(); StopAndDestroyEngine(); }
\* CloseSoundSystem(); }
AssureSoundIsClosed ==
  /\ ~assertFailed
  /\ ctl.pc = "idle"
  /\ opsLeft > 0
  /\ m_open
  /\ opsLeft' = opsLeft - 1
  /\ ctl' = IF m_OrganController # NoOrgan
            THEN [IdleCtl EXCEPT !.pc = "stop_store", !.op = "AssureSoundIsClosed"]
            ELSE [IdleCtl EXCEPT !.pc = "close", !.op = "AssureSoundIsClosed",
                                 !.i = NOutputs - 1]
  /\ UNCHANGED <<engVars, taskVars, voiceVars, restVars, nDev, relock, m_open, m_OrganController, m_IsRunning, m_NCallbacksEntered,
                 m_CalcCount, m_WaitCount, m_AudioOutputs, devMutex, devSignaled,
                 m_CallbackMutex, ctlSignaled, cb, assertFailed, cbLeft,
                 m_LifecycleState, m_CurrentTime, periods, ahead, meterOrder>>

\* void AssignOrganFile(pNewOrganController):
\* if (pNewOrganController != m_OrganController) { if (m_open &&
\* m_OrganController) { ... StopSoundSystem(); StopAndDestroyEngine(); } ...
AssignOrganFile(pNewOrganController) ==
  /\ ~assertFailed
  /\ ctl.pc = "idle"
  /\ opsLeft > 0
  /\ pNewOrganController # m_OrganController
  /\ opsLeft' = opsLeft - 1
  /\ ctl' = [IdleCtl EXCEPT !.op = "AssignOrganFile", !.arg = pNewOrganController,
                            !.pc = IF m_open /\ m_OrganController # NoOrgan
                                   THEN "stop_store" ELSE "assign"]
  /\ UNCHANGED <<engVars, taskVars, voiceVars, restVars, nDev, relock, m_open, m_OrganController, m_IsRunning, m_NCallbacksEntered,
                 m_CalcCount, m_WaitCount, m_AudioOutputs, devMutex, devSignaled,
                 m_CallbackMutex, ctlSignaled, cb, assertFailed, cbLeft,
                 m_LifecycleState, m_CurrentTime, periods, ahead, meterOrder>>

\* m_OrganController = pNewOrganController;
\* if (m_open && m_OrganController) { BuildAndStartEngine(); ...
AssignOrgan ==
  /\ ~assertFailed
  /\ ctl.pc = "assign"
  /\ m_OrganController' = ctl.arg
  /\ ctl' = IF m_open /\ ctl.arg # NoOrgan
            THEN [ctl EXCEPT !.pc = "build"]
            ELSE IdleCtl
  /\ UNCHANGED <<engVars, taskVars, voiceVars, restVars, nDev, relock, m_open, m_IsRunning, m_NCallbacksEntered,
                 m_CalcCount, m_WaitCount, m_AudioOutputs, devMutex, devSignaled,
                 m_CallbackMutex, ctlSignaled, cb, assertFailed, opsLeft, cbLeft,
                 m_LifecycleState, m_CurrentTime, periods, ahead, meterOrder>>

\* the state of the engine after an operation of the lifecycle, and whether
\* its assert() holds: BuildEngine, StartEngine, StopEngine, DestroyEngine,
\* SetUsed
BuildEngineOk(state) == state = IDLE
BuildEngineState(state) == BUILT
StartEngineOk(state) == state = BUILT
StartEngineState(state) == WORKING
StopEngineOk(state) == state = WORKING
\* a StopEngine that forgets the threads and tasks it leaves built
StopEngineToIdle(state) == IDLE
StopEngineState(state) == BUILT
DestroyEngineOk(state) == state = BUILT
DestroyEngineState(state) == IDLE
SetUsedOk(state) ==
  LifecycleRank(state) >= LifecycleRank(WORKING) /\ LifecycleRank(state) <= LifecycleRank(USED)
SetUsedState(state, isUsed) == IF isUsed THEN USED ELSE WORKING

\* BuildAndStartEngine(): m_SoundEngine.BuildAndStart(): BuildEngine
CtlBuildEngine ==
  /\ ~assertFailed
  /\ ctl.pc = "build"
  /\ IF BuildEngineOk(m_LifecycleState)
     THEN /\ m_LifecycleState' = BuildEngineState(m_LifecycleState)
          /\ ctl' = [ctl EXCEPT !.pc = "startEngine"]
          /\ UNCHANGED assertFailed
     ELSE /\ assertFailed' = TRUE
          /\ UNCHANGED <<m_LifecycleState, ctl>>
  /\ UNCHANGED <<engVars, taskVars, voiceVars, restVars, nDev, relock, m_open, m_OrganController, m_IsRunning, m_NCallbacksEntered,
                 m_CalcCount, m_WaitCount, m_AudioOutputs, devMutex, devSignaled,
                 m_CallbackMutex, ctlSignaled, cb, opsLeft, cbLeft,
                 m_CurrentTime, periods, ahead, meterOrder>>

\* StartEngine: ResetCounters(); ResumeGivingWork(); the state is WORKING
CtlStartEngine ==
  /\ ~assertFailed
  /\ ctl.pc = "startEngine"
  /\ IF StartEngineOk(m_LifecycleState)
     THEN /\ m_LifecycleState' = StartEngineState(m_LifecycleState)
          /\ m_CurrentTime' = 1
          /\ periods' = 0
          /\ ahead' = [d \in Devices |-> 0]
          /\ ctl' = [ctl EXCEPT !.pc = "sss_dev", !.i = 0]
          /\ UNCHANGED assertFailed
     ELSE /\ assertFailed' = TRUE
          /\ UNCHANGED <<m_LifecycleState, m_CurrentTime, periods, ahead, ctl>>
  /\ UNCHANGED <<engVars, taskVars, voiceVars, restVars, nDev, relock, m_open, m_OrganController, m_IsRunning, m_NCallbacksEntered,
                 m_CalcCount, m_WaitCount, m_AudioOutputs, devMutex, devSignaled,
                 m_CallbackMutex, ctlSignaled, cb, opsLeft, cbLeft,
                 meterOrder>>

\* StartSoundSystem: for (output : m_AudioOutputs) { GOMutexLocker
\* dev_lock(output.mutex); output.wait = false; output.waiting = true; }
StartEnableOutput ==
  /\ ~assertFailed
  /\ ctl.pc = "sss_dev"
  /\ IF ctl.i < NOutputs
     THEN /\ devMutex[ctl.i] = NoOwner
          /\ m_AudioOutputs' = [m_AudioOutputs EXCEPT ![ctl.i].wait = FALSE,
                                                      ![ctl.i].waiting = TRUE]
          /\ ctl' = [ctl EXCEPT !.i = @ + 1]
     ELSE /\ ctl' = [ctl EXCEPT !.pc = "sss_wait"]
          /\ UNCHANGED m_AudioOutputs
  /\ UNCHANGED <<engVars, taskVars, voiceVars, restVars, nDev, relock, m_open, m_OrganController, m_IsRunning, m_NCallbacksEntered,
                 m_CalcCount, m_WaitCount, devMutex, devSignaled,
                 m_CallbackMutex, ctlSignaled, cb, assertFailed, opsLeft, cbLeft,
                 m_LifecycleState, m_CurrentTime, periods, ahead, meterOrder>>

\* m_WaitCount.store(0);
StartStoreWaitCount ==
  /\ ~assertFailed
  /\ ctl.pc = "sss_wait"
  /\ m_WaitCount' = 0
  /\ ctl' = [ctl EXCEPT !.pc = "sss_calc"]
  /\ UNCHANGED <<engVars, taskVars, voiceVars, restVars, nDev, relock, m_open, m_OrganController, m_IsRunning, m_NCallbacksEntered,
                 m_CalcCount, m_AudioOutputs, devMutex, devSignaled,
                 m_CallbackMutex, ctlSignaled, cb, assertFailed, opsLeft, cbLeft,
                 m_LifecycleState, m_CurrentTime, periods, ahead, meterOrder>>

\* m_CalcCount.store(0);
StartStoreCalcCount ==
  /\ ~assertFailed
  /\ ctl.pc = "sss_calc"
  /\ m_CalcCount' = 0
  /\ ctl' = [ctl EXCEPT !.pc = "sss_ncb"]
  /\ UNCHANGED <<engVars, taskVars, voiceVars, restVars, nDev, relock, m_open, m_OrganController, m_IsRunning, m_NCallbacksEntered,
                 m_WaitCount, m_AudioOutputs, devMutex, devSignaled,
                 m_CallbackMutex, ctlSignaled, cb, assertFailed, opsLeft, cbLeft,
                 m_LifecycleState, m_CurrentTime, periods, ahead, meterOrder>>

\* m_NCallbacksEntered.store(0);
StartStoreEntered ==
  /\ ~assertFailed
  /\ ctl.pc = "sss_ncb"
  /\ m_NCallbacksEntered' = 0
  /\ ctl' = [ctl EXCEPT !.pc = "sss_run"]
  /\ UNCHANGED <<engVars, taskVars, voiceVars, restVars, nDev, relock, m_open, m_OrganController, m_IsRunning,
                 m_CalcCount, m_WaitCount, m_AudioOutputs, devMutex, devSignaled,
                 m_CallbackMutex, ctlSignaled, cb, assertFailed, opsLeft, cbLeft,
                 m_LifecycleState, m_CurrentTime, periods, ahead, meterOrder>>

\* m_IsRunning.store(true); then NotifySoundIsOpen() and the return
StartStoreRunning ==
  /\ ~assertFailed
  /\ ctl.pc = "sss_run"
  /\ m_IsRunning' = TRUE
  /\ ctl' = IdleCtl
  /\ UNCHANGED <<engVars, taskVars, voiceVars, restVars, nDev, relock, m_open, m_OrganController, m_NCallbacksEntered,
                 m_CalcCount, m_WaitCount, m_AudioOutputs, devMutex, devSignaled,
                 m_CallbackMutex, ctlSignaled, cb, assertFailed, opsLeft, cbLeft,
                 m_LifecycleState, m_CurrentTime, periods, ahead, meterOrder>>

\* StopSoundSystem: m_IsRunning.store(false);
StopStoreRunning ==
  /\ ~assertFailed
  /\ ctl.pc = "stop_store"
  /\ m_IsRunning' = FALSE
  /\ ctl' = [ctl EXCEPT !.pc = "stop_lock"]
  /\ UNCHANGED <<engVars, taskVars, voiceVars, restVars, nDev, relock, m_open, m_OrganController, m_NCallbacksEntered,
                 m_CalcCount, m_WaitCount, m_AudioOutputs, devMutex, devSignaled,
                 m_CallbackMutex, ctlSignaled, cb, assertFailed, opsLeft, cbLeft,
                 m_LifecycleState, m_CurrentTime, periods, ahead, meterOrder>>

\* GOMutexLocker lock(m_CallbackMutex);
StopLock ==
  /\ ~assertFailed
  /\ ctl.pc = "stop_lock"
  /\ m_CallbackMutex = NoOwner
  /\ m_CallbackMutex' = Ctl
  /\ ctl' = [ctl EXCEPT !.pc = "stop_check"]
  /\ UNCHANGED <<engVars, taskVars, voiceVars, restVars, nDev, relock, m_open, m_OrganController, m_IsRunning, m_NCallbacksEntered,
                 m_CalcCount, m_WaitCount, m_AudioOutputs, devMutex, devSignaled,
                 ctlSignaled, cb, assertFailed, opsLeft, cbLeft,
                 m_LifecycleState, m_CurrentTime, periods, ahead, meterOrder>>

\* while (m_NCallbacksEntered.load() > 0)
StillEntered(nCallbacksEntered) == UPositive(nCallbacksEntered)

\* while (m_NCallbacksEntered.load() > 0) m_CallbackCondition.WaitOrStop(..);
\* the wait releases m_CallbackMutex; the end of the block releases it too
StopCheck ==
  /\ ~assertFailed
  /\ ctl.pc = "stop_check"
  /\ m_CallbackMutex' = NoOwner
  /\ ctlSignaled' = FALSE
  /\ ctl' = IF StillEntered(m_NCallbacksEntered)
            THEN [ctl EXCEPT !.pc = "stop_sleep"]
            ELSE [ctl EXCEPT !.pc = "stop_multi", !.i = 0]
  /\ UNCHANGED <<engVars, taskVars, voiceVars, restVars, nDev, relock, m_open, m_OrganController, m_IsRunning, m_NCallbacksEntered,
                 m_CalcCount, m_WaitCount, m_AudioOutputs, devMutex, devSignaled,
                 cb, assertFailed, opsLeft, cbLeft,
                 m_LifecycleState, m_CurrentTime, periods, ahead, meterOrder>>

\* the return of WaitOrStop: the control thread was notified and takes
\* m_CallbackMutex again
StopWake ==
  /\ ~assertFailed
  /\ ctl.pc = "stop_sleep"
  /\ ctlSignaled
  /\ m_CallbackMutex = NoOwner
  /\ m_CallbackMutex' = Ctl
  /\ ctlSignaled' = FALSE
  /\ ctl' = [ctl EXCEPT !.pc = "stop_check"]
  /\ UNCHANGED <<engVars, taskVars, voiceVars, restVars, nDev, relock, m_open, m_OrganController, m_IsRunning, m_NCallbacksEntered,
                 m_CalcCount, m_WaitCount, m_AudioOutputs, devMutex, devSignaled,
                 cb, assertFailed, opsLeft, cbLeft,
                 m_LifecycleState, m_CurrentTime, periods, ahead, meterOrder>>

\* GOMultiMutexLocker multi; for (output : m_AudioOutputs) multi.Add(output.mutex);
StopLockOutputs ==
  /\ ~assertFailed
  /\ ctl.pc = "stop_multi"
  /\ IF ctl.i < NOutputs
     THEN /\ devMutex[ctl.i] = NoOwner
          /\ devMutex' = [devMutex EXCEPT ![ctl.i] = Ctl]
          /\ ctl' = [ctl EXCEPT !.i = @ + 1]
     ELSE /\ ctl' = [ctl EXCEPT !.pc = "stop_flags"]
          /\ UNCHANGED devMutex
  /\ UNCHANGED <<engVars, taskVars, voiceVars, restVars, nDev, relock, m_open, m_OrganController, m_IsRunning, m_NCallbacksEntered,
                 m_CalcCount, m_WaitCount, m_AudioOutputs, devSignaled,
                 m_CallbackMutex, ctlSignaled, cb, assertFailed, opsLeft, cbLeft,
                 m_LifecycleState, m_CurrentTime, periods, ahead, meterOrder>>

\* for (output : m_AudioOutputs) { output.waiting = false; output.wait = false;
\* output.condition.Broadcast(); }
StopDisableOutputs ==
  /\ ~assertFailed
  /\ ctl.pc = "stop_flags"
  /\ m_AudioOutputs' = [d \in Devices |->
        IF d < NOutputs
        THEN [m_AudioOutputs[d] EXCEPT !.waiting = FALSE, !.wait = FALSE]
        ELSE m_AudioOutputs[d]]
  /\ devSignaled' = [d \in Devices |->
        IF d < NOutputs THEN Sleeps(d) ELSE devSignaled[d]]
  /\ ctl' = [ctl EXCEPT !.pc = "stop_relock", !.i = 1]
  /\ UNCHANGED <<engVars, taskVars, voiceVars, restVars, nDev, relock, m_open, m_OrganController, m_IsRunning, m_NCallbacksEntered,
                 m_CalcCount, m_WaitCount, devMutex,
                 m_CallbackMutex, ctlSignaled, cb, assertFailed, opsLeft, cbLeft,
                 m_LifecycleState, m_CurrentTime, periods, ahead, meterOrder>>

\* for (i = 1; i < n; i++) { GOMutexLocker dev_lock(m_AudioOutputs[i].mutex);
\* m_AudioOutputs[i].condition.Broadcast(); } and the end of the scope of
\* multi, which releases every device mutex. The thread locks a mutex that
\* multi holds for it: the lock blocks for ever or fails and lets the thread
\* go on, as the mutex of the build does.
StopRelockOutputs ==
  /\ ~assertFailed
  /\ ctl.pc = "stop_relock"
  /\ IF ctl.i < NOutputs
     THEN /\ LockReturns(devMutex[ctl.i], Ctl, relock)
          /\ devSignaled' = [devSignaled EXCEPT ![ctl.i] = Sleeps(ctl.i)]
          /\ ctl' = [ctl EXCEPT !.i = @ + 1]
          /\ UNCHANGED devMutex
     ELSE /\ devMutex' = [d \in Devices |->
                IF devMutex[d] = Ctl THEN NoOwner ELSE devMutex[d]]
          /\ ctl' = [ctl EXCEPT !.pc = "stopEngine"]
          /\ UNCHANGED devSignaled
  /\ UNCHANGED <<engVars, taskVars, voiceVars, restVars, nDev, relock, m_open, m_OrganController, m_IsRunning, m_NCallbacksEntered,
                 m_CalcCount, m_WaitCount, m_AudioOutputs,
                 m_CallbackMutex, ctlSignaled, cb, assertFailed, opsLeft, cbLeft,
                 m_LifecycleState, m_CurrentTime, periods, ahead, meterOrder>>

\* StopAndDestroyEngine(): m_SoundEngine.StopAndDestroy(): StopEngine
CtlStopEngine ==
  /\ ~assertFailed
  /\ ctl.pc = "stopEngine"
  /\ IF StopEngineOk(m_LifecycleState)
     THEN /\ m_LifecycleState' = StopEngineState(m_LifecycleState)
          /\ ctl' = [ctl EXCEPT !.pc = "destroyEngine"]
          /\ UNCHANGED assertFailed
     ELSE /\ assertFailed' = TRUE
          /\ UNCHANGED <<m_LifecycleState, ctl>>
  /\ UNCHANGED <<engVars, taskVars, voiceVars, restVars, nDev, relock, m_open, m_OrganController, m_IsRunning, m_NCallbacksEntered,
                 m_CalcCount, m_WaitCount, m_AudioOutputs, devMutex, devSignaled,
                 m_CallbackMutex, ctlSignaled, cb, opsLeft, cbLeft,
                 m_CurrentTime, periods, ahead, meterOrder>>

\* DestroyEngine, and the return to AssureSoundIsClosed or AssignOrganFile
CtlDestroyEngine ==
  /\ ~assertFailed
  /\ ctl.pc = "destroyEngine"
  /\ IF DestroyEngineOk(m_LifecycleState)
     THEN /\ m_LifecycleState' = DestroyEngineState(m_LifecycleState)
          /\ ctl' = IF ctl.op = "AssureSoundIsClosed"
                    THEN [ctl EXCEPT !.pc = "close", !.i = NOutputs - 1]
                    ELSE [ctl EXCEPT !.pc = "assign"]
          /\ UNCHANGED assertFailed
     ELSE /\ assertFailed' = TRUE
          /\ UNCHANGED <<m_LifecycleState, ctl>>
  /\ UNCHANGED <<engVars, taskVars, voiceVars, restVars, nDev, relock, m_open, m_OrganController, m_IsRunning, m_NCallbacksEntered,
                 m_CalcCount, m_WaitCount, m_AudioOutputs, devMutex, devSignaled,
                 m_CallbackMutex, ctlSignaled, cb, opsLeft, cbLeft,
                 m_CurrentTime, periods, ahead, meterOrder>>

\* CloseSoundSystem: for (i = size - 1; i >= 0; i--) { port->Close(); delete
\* port; } ResetMeters(); m_AudioOutputs.clear(); m_open = false;
\* Close() of a port returns when the driver has left its callback.
CloseSoundSystem ==
  /\ ~assertFailed
  /\ ctl.pc = "close"
  /\ IF ctl.i >= 0
     THEN /\ cb[ctl.i].pc = "idle"
          /\ m_AudioOutputs' = [m_AudioOutputs EXCEPT ![ctl.i].port = FALSE]
          /\ ctl' = [ctl EXCEPT !.i = @ - 1]
          /\ UNCHANGED m_open
     ELSE /\ m_AudioOutputs' = NoOutputs
          /\ m_open' = FALSE
          /\ ctl' = IdleCtl
  /\ UNCHANGED <<engVars, taskVars, voiceVars, restVars, nDev, relock, m_OrganController, m_IsRunning, m_NCallbacksEntered,
                 m_CalcCount, m_WaitCount, devMutex, devSignaled,
                 m_CallbackMutex, ctlSignaled, cb, assertFailed, opsLeft, cbLeft,
                 m_LifecycleState, m_CurrentTime, periods, ahead, meterOrder>>

(***************************************************************************)
(* The specification of the sound system                                   *)
(***************************************************************************)
\* The sound system as constructed: closed, not running, no callback inside.
\* The audio configuration has one device or more; the application has
\* either loaded no organ yet or assigned one while the sound was closed
\* (AssignOrganFile with m_open false only stores the pointer).
Init ==
  /\ nDev \in 1 .. MaxDevices
  /\ relock \in {"blocks", "proceeds"}
  /\ m_open = FALSE
  /\ m_OrganController \in {NoOrgan, LoadedOrgan}
  /\ m_IsRunning = FALSE
  /\ m_NCallbacksEntered = 0
  /\ m_CalcCount = 0
  /\ m_WaitCount = 0
  /\ m_AudioOutputs = NoOutputs
  /\ devMutex = [d \in Devices |-> NoOwner]
  /\ devSignaled = [d \in Devices |-> FALSE]
  /\ m_CallbackMutex = NoOwner
  /\ ctlSignaled = FALSE
  /\ cb = [d \in Devices |-> IdleCb]
  /\ ctl = IdleCtl
  /\ assertFailed = FALSE
  /\ opsLeft = MaxOps
  /\ cbLeft = [d \in Devices |-> MaxCallbacks]
  /\ m_LifecycleState = IDLE
  /\ m_CurrentTime = 1
  /\ periods = 0
  /\ ahead = [d \in Devices |-> 0]
  /\ meterOrder = <<>>
  /\ engOp = "none"
  /\ engPrev = IDLE
  /\ engServed = "none"
  /\ engOpsLeft = 0
  /\ TaskUntouched(0)
  /\ VoicesUntouched(0)
  /\ RestUntouched

CallbackStep(d) ==
  \/ \E framesOk \in BOOLEAN : CbArrive(d, framesOk)
  \/ CbEnter(d)
  \/ CbLoad2(d)
  \/ CbLock(d)
  \/ CbGate(d)
  \/ CbWake(d)
  \/ CbCalc(d)
  \/ CbGetAudioOutput(d)
  \/ CbGotAudioOutput(d)
  \/ CbWaitCount(d)
  \/ CbNextPeriod(d)
  \/ CbNextPeriodDone(d)
  \/ CbUpdateMeter(d)
  \/ CbResetCalc(d)
  \/ CbResetWait(d)
  \/ CbRelease(d)
  \/ CbUnlock(d)
  \/ CbExit(d)
  \/ CbLoad3(d)
  \/ CbNotify(d)

ControlStep ==
  \/ AssureSoundIsOpen
  \/ AssureSoundIsClosed
  \/ \E o \in {NoOrgan} \cup Organs : AssignOrganFile(o)
  \/ AssignOrgan
  \/ CtlBuildEngine
  \/ CtlStartEngine
  \/ StartEnableOutput
  \/ StartStoreWaitCount
  \/ StartStoreCalcCount
  \/ StartStoreEntered
  \/ StartStoreRunning
  \/ StopStoreRunning
  \/ StopLock
  \/ StopCheck
  \/ StopWake
  \/ StopLockOutputs
  \/ StopDisableOutputs
  \/ StopRelockOutputs
  \/ CtlStopEngine
  \/ CtlDestroyEngine
  \/ CloseSoundSystem

Next ==
  \/ \E d \in Devices : CallbackStep(d)
  \/ ControlStep

Spec == Init /\ [][Next]_vars

(***************************************************************************)
(* The claims about the sound system                                       *)
(***************************************************************************)

\* a callback is between the call and the return of NextPeriod
InNextPeriod(d) == cb[d].pc \in {"cb_next", "cb_in_next"}
\* a callback is between the call and the return of GetAudioOutput
InGetAudioOutput(d) == cb[d].pc = "cb_in_get"
\* a callback has passed the second load of m_IsRunning and has not yet left
\* the block it guards
InRendezvous(d) ==
  cb[d].pc \notin {"idle", "cb_enter", "cb_load2", "cb_exit", "cb_load3", "cb_notify"}
\* StopSoundSystem has just returned to its caller
StopReturned == ctl.pc = "stopEngine"

C3_StopReturnsDrained ==
  StopReturned => \A d \in Devs : ~InRendezvous(d)

\* C4: a callback is inside GetAudioOutput or NextPeriod only while the engine
\* is built and started: the engine is not stopped or destroyed under it.
C4_EngineStartedUnderCallback ==
  \A d \in Devs :
    (InGetAudioOutput(d) \/ cb[d].pc = "cb_in_next") => m_LifecycleState \in {WORKING, USED}

\* C27: no sequence of AssureSoundIsOpen, AssureSoundIsClosed and
\* AssignOrganFile breaks an assertion of the lifecycle of the engine:
\* BuildEngine is reached only in IDLE and StopEngine only in WORKING; an
\* AssureSoundIsOpen on the open sound system with its engine running does
\* not build the engine again.
C27_LifecycleAssertionsHold ==
  /\ ctl.pc = "build" => m_LifecycleState = IDLE
  /\ ctl.pc = "stopEngine" => m_LifecycleState = WORKING
  /\ ~assertFailed

\* the steps of the last arrived callback of a period with n devices
LastArrivedSteps(n) ==
  <<"NextPeriod", "UpdateMeter", "WakeupThreads", "ResetCalcCount", "ResetWaitCount">>
    \o [k \in 1 .. n |-> "Release"]
\* the steps were done in their order, the gates in increasing device index
InPeriodOrder ==
  /\ Len(meterOrder) <= Len(LastArrivedSteps(nDev))
  /\ \A k \in 1 .. Len(meterOrder) :
       /\ meterOrder[k].step = LastArrivedSteps(nDev)[k]
       /\ meterOrder[k].step = "Release" => meterOrder[k].i + 6 = k

\* every gate was released with both counters at zero. A callback that the
\* release of its gate has woken counts itself in while the gates of the
\* devices after it are still to be released, so this holds for the first
\* gate at best.
GatesReleasedAtZero ==
  \A k \in 1 .. Len(meterOrder) :
    meterOrder[k].step = "Release" =>
      (meterOrder[k].calc = 0 /\ meterOrder[k].wait = 0)

Arrives(d) == cbLeft'[d] # cbLeft[d]

\* C21: a callback whose frame count differs from the samples per buffer
\* returns at once: its buffer holds silence, it has not added to
\* m_NCallbacksEntered, m_CalcCount or m_WaitCount, it has not called the
\* engine, and it returns true; every return of AudioCallback returns true.
C21_MismatchIsSilent ==
  [][\A d \in Devices :
       /\ (Arrives(d) /\ ~cb'[d].framesOk) =>
            /\ cb'[d] = [Return("silence") EXCEPT !.framesOk = FALSE]
            /\ UNCHANGED <<m_NCallbacksEntered, m_CalcCount, m_WaitCount,
                           m_CurrentTime, periods, ahead, m_AudioOutputs>>
       /\ ((Arrives(d) \/ cb[d].pc # "idle") /\ cb'[d].pc = "idle") =>
            cb'[d].returned = "true"]_vars

\* a callback with a wrong frame count has returned while the sound system
\* runs and the callback of another device is in the rendezvous
C21_Witness ==
  \E d, e \in Devs :
    /\ m_IsRunning
    /\ ~cb[d].framesOk /\ cb[d].pc = "idle" /\ cb[d].returned = "true"
    /\ d # e /\ InRendezvous(e)

(***************************************************************************)
(* GOSoundOrganEngine: the lifecycle operations, called one after another  *)
(* in any order (specification SpecEngine)                                 *)
(***************************************************************************)

\* the variables of the other parts that the lifecycle leaves alone
resOther == <<sampVars, outVars, extVars>>

\* the sound system is closed and has no organ
SoundSystemClosed ==
  /\ nDev = 1
  /\ relock = "blocks"
  /\ m_open = FALSE
  /\ m_OrganController = NoOrgan
  /\ m_IsRunning = FALSE
  /\ m_NCallbacksEntered = 0
  /\ m_CalcCount = 0
  /\ m_WaitCount = 0
  /\ m_AudioOutputs = NoOutputs
  /\ devMutex = [d \in Devices |-> NoOwner]
  /\ devSignaled = [d \in Devices |-> FALSE]
  /\ m_CallbackMutex = NoOwner
  /\ ctlSignaled = FALSE
  /\ cb = [d \in Devices |-> IdleCb]
  /\ ctl = IdleCtl
  /\ opsLeft = 0
  /\ cbLeft = [d \in Devices |-> 0]
  /\ ahead = [d \in Devices |-> 0]
  /\ meterOrder = <<>>

\* an operation of the lifecycle: its assert() holds and the state is stored,
\* or the assert() fails
Lifecycle(op, ok, state) ==
  /\ ~assertFailed
  /\ engOpsLeft > 0
  /\ engOpsLeft' = engOpsLeft - 1
  /\ engOp' = op
  /\ engPrev' = m_LifecycleState
  /\ IF ok
     THEN m_LifecycleState' = state /\ UNCHANGED assertFailed
     ELSE assertFailed' = TRUE /\ UNCHANGED m_LifecycleState
  /\ UNCHANGED <<soundVars, taskVars, voiceVars, resOther, engServed, periods>>

\* [B1]-[B10] of BuildEngine: the tasks, the scheduler and the threads
Built(e, nAudioGroups, nOutputs, isDownmix, nAuxThreads) ==
  [e EXCEPT
     !.mp_AudioGroupTasks = @ + nAudioGroups,
     !.mp_AudioOutputTasks = @ + nOutputs,
     !.mp_DownmixTask = isDownmix,
     !.mp_TremulantTasks = @ + MaxTremulants,
     !.mp_WindchestTasks = @ + 1 + MaxWindchests,
     !.scheduled =
       MaxTremulants + (1 + MaxWindchests) + nAudioGroups
         + (IF isDownmix THEN 1 ELSE 0) + nOutputs + 3,
     !.mp_threads = @ + nAuxThreads]

\* [B10]-[B1] of DestroyEngine
Destroyed(e) ==
  [e EXCEPT
     !.mp_threads = 0, !.scheduled = 0, !.mp_WindchestTasks = 0,
     !.mp_TremulantTasks = 0, !.mp_DownmixTask = FALSE,
     !.mp_AudioOutputTasks = 0, !.mp_AudioGroupTasks = 0]

\* ResetCounters without m_SamplerPool.ReturnAll()
ResetCountersKeepsPool(e) == [e EXCEPT !.m_UsedPolyphony = 0]
\* void GOSoundOrganEngine::ResetCounters(); m_CurrentTime = 1 is in StartEngine
ResetCounters(e) == [e EXCEPT !.m_UsedPolyphony = 0, !.usedSamplers = 0]

BuildEngine(nAudioGroups, nOutputs, isDownmix, nAuxThreads) ==
  /\ Lifecycle("BuildEngine", BuildEngineOk(m_LifecycleState),
               BuildEngineState(m_LifecycleState))
  /\ engine' =
       IF BuildEngineOk(m_LifecycleState)
         THEN Built(engine, nAudioGroups, nOutputs, isDownmix, nAuxThreads)
         ELSE engine
  /\ UNCHANGED m_CurrentTime

DestroyEngine ==
  /\ Lifecycle("DestroyEngine", DestroyEngineOk(m_LifecycleState),
               DestroyEngineState(m_LifecycleState))
  /\ engine' =
       IF DestroyEngineOk(m_LifecycleState) THEN Destroyed(engine) ELSE engine
  /\ UNCHANGED m_CurrentTime

\* StartEngine: ResetCounters() sets m_CurrentTime to 1
StartEngine ==
  /\ Lifecycle("StartEngine", StartEngineOk(m_LifecycleState),
               StartEngineState(m_LifecycleState))
  /\ m_CurrentTime' = IF StartEngineOk(m_LifecycleState) THEN 1 ELSE m_CurrentTime
  /\ engine' =
       IF StartEngineOk(m_LifecycleState)
         THEN [ResetCounters(engine) EXCEPT
                 !.givingWork = TRUE,
                 !.before =
                   [time |-> m_CurrentTime,
                    usedSamplers |-> engine.usedSamplers,
                    m_UsedPolyphony |-> engine.m_UsedPolyphony]]
         ELSE engine

\* StopEngine: m_Scheduler.PauseGivingWork()
StopEngine ==
  /\ Lifecycle("StopEngine", StopEngineOk(m_LifecycleState),
               StopEngineState(m_LifecycleState))
  /\ engine' =
       IF StopEngineOk(m_LifecycleState)
         THEN [engine EXCEPT !.givingWork = FALSE]
         ELSE engine
  /\ UNCHANGED m_CurrentTime

SetUsed(isUsed) ==
  /\ Lifecycle("SetUsed", SetUsedOk(m_LifecycleState),
               SetUsedState(m_LifecycleState, isUsed))
  /\ UNCHANGED <<m_CurrentTime, engine>>

\* a start call of the organ model while the engine works: CreateTaskSample
\* acquires a sampler of the pool unless the pool is exhausted
EngineStartSample ==
  /\ ~assertFailed
  /\ engOpsLeft > 0
  /\ m_LifecycleState \in {WORKING, USED}
  /\ engOpsLeft' = engOpsLeft - 1
  /\ engOp' = "StartSample"
  /\ engPrev' = m_LifecycleState
  /\ engine' =
       [engine EXCEPT !.usedSamplers = IF @ < MaxPolyphony THEN @ + 1 ELSE @]
  /\ UNCHANGED <<soundVars, taskVars, voiceVars, resOther, lifeVars, engServed>>

\* GetAudioOutput(outputIndex, isLast, outBuffer): the output task of the
\* device is finished and copied, or the buffer is filled with silence
GetAudioOutput ==
  /\ ~assertFailed
  /\ engOpsLeft > 0
  /\ engOpsLeft' = engOpsLeft - 1
  /\ engOp' = "GetAudioOutput"
  /\ engPrev' = m_LifecycleState
  /\ engServed' = IF ServesAudio(m_LifecycleState) THEN "audio" ELSE "silence"
  /\ UNCHANGED <<soundVars, taskVars, voiceVars, restVars, lifeVars>>

\* NextPeriod: m_CurrentTime += m_NSamplesPerBuffer
NextPeriod ==
  /\ ~assertFailed
  /\ engOpsLeft > 0
  /\ m_CurrentTime < 1 + NSamples * MaxPeriods
  /\ engOpsLeft' = engOpsLeft - 1
  /\ engOp' = "NextPeriod"
  /\ engPrev' = m_LifecycleState
  /\ m_CurrentTime' = NextTime(m_CurrentTime, NSamples, 1)
  /\ engine' =
       [engine EXCEPT
          !.m_UsedPolyphony = IF engine.usedSamplers > @ THEN engine.usedSamplers ELSE @]
  /\ UNCHANGED <<soundVars, taskVars, voiceVars, resOther, m_LifecycleState, periods, assertFailed, engServed>>

InitEngine ==
  /\ SoundSystemClosed
  /\ m_LifecycleState = IDLE
  /\ m_CurrentTime = 1
  /\ periods = 0
  /\ assertFailed = FALSE
  /\ engOp = "none"
  /\ engPrev = IDLE
  /\ engServed = "none"
  /\ engOpsLeft = MaxEngineOps
  /\ TaskUntouched(0)
  /\ VoicesUntouched(0)
  /\ SamplersUntouched(0)
  /\ OutputUntouched(0)
  /\ ExtUntouched
  /\ \E givingWork \in BOOLEAN : engine = NoEngine(givingWork)

NextEngine ==
  \/ \E nAudioGroups \in 1 .. MaxGroups, nOutputs \in 1 .. MaxDevices,
        isDownmix \in BOOLEAN, nAuxThreads \in 0 .. MaxWorkers :
       BuildEngine(nAudioGroups, nOutputs, isDownmix, nAuxThreads)
  \/ StartEngine
  \/ EngineStartSample
  \/ \E isUsed \in BOOLEAN : SetUsed(isUsed)
  \/ StopEngine
  \/ DestroyEngine
  \/ GetAudioOutput
  \/ NextPeriod

SpecEngine == InitEngine /\ [][NextEngine]_vars

\* C5: the lifecycle state moves only between neighbours of the chain
\* IDLE - BUILT - WORKING - USED: an operation that passes its assert() was
\* called in the state the claim names and leaves the state it names.
C5_AdjacentTransitions ==
  /\ (LifecycleRank(m_LifecycleState) - LifecycleRank(engPrev)) \in {-1, 0, 1}
  /\ ~assertFailed =>
       /\ engOp = "BuildEngine" => engPrev = IDLE /\ m_LifecycleState = BUILT
       /\ engOp = "StartEngine" => engPrev = BUILT /\ m_LifecycleState = WORKING
       /\ engOp = "SetUsed" => engPrev \in {WORKING, USED} /\ m_LifecycleState \in {WORKING, USED}
       /\ engOp = "StopEngine" => engPrev = WORKING /\ m_LifecycleState = BUILT
       /\ engOp = "DestroyEngine" => engPrev = BUILT /\ m_LifecycleState = IDLE
       /\ engOp \in {"GetAudioOutput", "NextPeriod"} => m_LifecycleState = engPrev

\* the engine has been built, started, used, released and stopped, and is
\* destroyed
C5_Witness ==
  /\ engOp = "DestroyEngine"
  /\ ~assertFailed
  /\ m_LifecycleState = IDLE
  /\ engOpsLeft = MaxEngineOps - 6

\* C6: GetAudioOutput serves audio whenever the state is WORKING or USED and
\* silence when it is IDLE or BUILT.
C6_ServesWhenWorkingOrUsed ==
  engOp = "GetAudioOutput" =>
    (engServed = "audio" <=> engPrev \in {WORKING, USED})

\* C16: every StartEngine, after any cycles with voices and periods,
\* establishes m_CurrentTime = 1, no used sampler in the pool, peak polyphony
\* 0, the scheduler giving work and the state WORKING.
C16_StartEngineResets ==
  (engOp = "StartEngine" /\ ~assertFailed) =>
    /\ m_CurrentTime = 1
    /\ engine.usedSamplers = 0
    /\ engine.m_UsedPolyphony = 0
    /\ engine.givingWork
    /\ m_LifecycleState = WORKING

\* the engine is started again after a cycle that left voices in use, a peak
\* polyphony and elapsed periods
C16_Witness ==
  /\ engOp = "StartEngine"
  /\ ~assertFailed
  /\ engine.before.time > 1
  /\ engine.before.usedSamplers > 0
  /\ engine.before.m_UsedPolyphony > 0

\* C17: DestroyEngine leaves the engine in IDLE with nothing left: no worker
\* thread, no tremulant, windchest, audio group, output or downmix task,
\* nothing in the scheduler and no sampler still acquired from the pool.
C17_DestroyLeavesNothing ==
  (engOp = "DestroyEngine" /\ ~assertFailed) =>
    /\ m_LifecycleState = IDLE
    /\ engine.mp_threads = 0
    /\ engine.mp_TremulantTasks = 0
    /\ engine.mp_WindchestTasks = 0
    /\ engine.mp_AudioGroupTasks = 0
    /\ engine.mp_AudioOutputTasks = 0
    /\ ~engine.mp_DownmixTask
    /\ engine.scheduled = 0
    /\ engine.usedSamplers = 0

(***************************************************************************)
(* GOSoundOutputTask: Run, Finish and Reset called by the audio thread and *)
(* the worker threads (specification SpecTask)                             *)
(***************************************************************************)

\* pThread of Run and Finish: the audio thread passes none
IsWorker(t) == t # 0

\* try_lock of GOMutexLocker locker(m_Mutex, false, "GOSoundOutputTask::Run", pThread)
RunTryLockTrue == TRUE
RunTryLock == FALSE

\* GOMutexLocker(mutex, try_lock, lockerInfo, pThread): the outcomes of the
\* constructor. TryLock never waits; with a pThread the lock is taken unless
\* the thread is asked to stop; without one the thread waits for the mutex.
LockOutcomes(tryLock, free, hasThread, stopRequested) ==
  IF tryLock
  THEN IF free THEN {"locked"} ELSE {"unlocked"}
  ELSE IF hasThread /\ stopRequested
       THEN IF free THEN {"locked", "unlocked"} ELSE {"unlocked"}
       ELSE IF free THEN {"locked"} ELSE {"waits"}

\* if (m_Done.load() || !locker.IsLocked()) return;
RunRetreatsUnlocked(done, locked) == ~locked
RunRetreats(done, locked) == done \/ ~locked

\* if (pThread && pThread->ShouldStop()) return;
AbandonsRunUnasked(isWorker, stopRequested) == isWorker
AbandonsRun(isWorker, stopRequested) == isWorker /\ stopRequested

StopRequested(t) == IsWorker(t) /\ shouldStop[t]

InBody(t) == tpc[t] \in {"body_fill", "body_mix", "body_clamp", "body_done", "run_unlock"}
InReset(t) == tpc[t] \in {"reset_done", "reset_stop"}

taskOther == <<soundVars, lifeVars, engVars, voiceVars, restVars>>

\* a thread calls Run(pThread)
TaskRun(t) ==
  /\ tpc[t] = "idle"
  /\ callsLeft > 0
  /\ callsLeft' = callsLeft - 1
  /\ tpc' = [tpc EXCEPT ![t] = "run_check1"]
  /\ tlocal' = [tlocal EXCEPT ![t] = [IdleThread EXCEPT !.op = "Run",
                                                        !.doneAtStart = m_Done,
                                                        !.startGen = generation]]
  /\ UNCHANGED <<taskOther, m_Done, m_Stop, m_Mutex, shouldStop, buffer, generation,
                 completions, lastReset, abandons>>

\* a thread calls Finish(stop, pThread): if (stop) m_Stop.store(true)
TaskFinish(t, stop) ==
  /\ tpc[t] = "idle"
  /\ callsLeft > 0
  /\ callsLeft' = callsLeft - 1
  /\ m_Stop' = (m_Stop \/ stop)
  /\ tpc' = [tpc EXCEPT ![t] = "finish_check"]
  /\ tlocal' = [tlocal EXCEPT ![t] = [IdleThread EXCEPT !.op = "Finish",
                                                        !.doneAtStart = m_Done,
                                                        !.startGen = generation]]
  /\ UNCHANGED <<taskOther, m_Done, m_Mutex, shouldStop, buffer, generation,
                 completions, lastReset, abandons>>

\* Finish: if (!m_Done.load()) Run(pThread)
FinishCheck(t) ==
  /\ tpc[t] = "finish_check"
  /\ tpc' = [tpc EXCEPT ![t] = IF m_Done THEN "returned" ELSE "run_check1"]
  /\ UNCHANGED <<taskOther, m_Done, m_Stop, m_Mutex, tlocal, shouldStop, buffer,
                 generation, completions, lastReset, abandons, callsLeft>>

\* Run: if (m_Done.load()) return
RunCheck1(t) ==
  /\ tpc[t] = "run_check1"
  /\ tpc' = [tpc EXCEPT ![t] = IF m_Done THEN "returned" ELSE "run_lock"]
  /\ UNCHANGED <<taskOther, m_Done, m_Stop, m_Mutex, tlocal, shouldStop, buffer,
                 generation, completions, lastReset, abandons, callsLeft>>

\* Run: GOMutexLocker locker(m_Mutex, false, "GOSoundOutputTask::Run", pThread)
RunLock(t) ==
  /\ tpc[t] \in {"run_lock", "run_wait"}
  /\ \E outcome \in LockOutcomes(RunTryLock, m_Mutex = {}, IsWorker(t), StopRequested(t)) :
       \/ /\ outcome = "locked"
          /\ m_Mutex' = {t}
          /\ tlocal' = [tlocal EXCEPT ![t].locked = TRUE]
          /\ tpc' = [tpc EXCEPT ![t] = "run_check2"]
       \/ /\ outcome = "unlocked"
          /\ tpc' = [tpc EXCEPT ![t] = "run_check2"]
          /\ UNCHANGED <<m_Mutex, tlocal>>
       \/ /\ outcome = "waits"
          /\ tpc' = [tpc EXCEPT ![t] = "run_wait"]
          /\ tlocal' = [tlocal EXCEPT ![t].waited = TRUE]
          /\ UNCHANGED m_Mutex
  /\ UNCHANGED <<taskOther, m_Done, m_Stop, shouldStop, buffer, generation,
                 completions, lastReset, abandons, callsLeft>>

\* Run: if (m_Done.load() || !locker.IsLocked()) return
RunCheck2(t) ==
  /\ tpc[t] = "run_check2"
  /\ IF RunRetreats(m_Done, tlocal[t].locked)
     THEN /\ tpc' = [tpc EXCEPT ![t] = "returned"]
          /\ m_Mutex' = m_Mutex \ {t}
          /\ tlocal' = [tlocal EXCEPT ![t].locked = FALSE]
     ELSE /\ tpc' = [tpc EXCEPT ![t] = "body_fill"]
          /\ UNCHANGED <<m_Mutex, tlocal>>
  /\ UNCHANGED <<taskOther, m_Done, m_Stop, shouldStop, buffer, generation,
                 completions, lastReset, abandons, callsLeft>>

\* Run: FillWithSilence()
BodyFill(t) ==
  /\ tpc[t] = "body_fill"
  /\ buffer' = [state |-> "partial", gen |-> generation]
  /\ tlocal' = [tlocal EXCEPT ![t].j = 0]
  /\ tpc' = [tpc EXCEPT ![t] = IF MaxInputs = 0 THEN "body_clamp" ELSE "body_mix"]
  /\ UNCHANGED <<taskOther, m_Done, m_Stop, m_Mutex, shouldStop, generation,
                 completions, lastReset, abandons, callsLeft>>

\* Run: output->Finish(m_Stop.load(), pThread); the worker that is asked to
\* stop returns, the others add the channel of the input
BodyMix(t) ==
  /\ tpc[t] = "body_mix"
  /\ IF AbandonsRun(IsWorker(t), StopRequested(t))
     THEN /\ tpc' = [tpc EXCEPT ![t] = "returned"]
          /\ m_Mutex' = m_Mutex \ {t}
          /\ tlocal' = [tlocal EXCEPT ![t].locked = FALSE]
          /\ abandons' = abandons \cup {generation}
          /\ UNCHANGED buffer
     ELSE /\ tpc' = [tpc EXCEPT ![t] = IF tlocal[t].j + 1 = MaxInputs
                                       THEN "body_clamp" ELSE "body_mix"]
          /\ tlocal' = [tlocal EXCEPT ![t].j = @ + 1]
          /\ buffer' = [state |-> "partial", gen |-> generation]
          /\ UNCHANGED <<m_Mutex, abandons>>
  /\ UNCHANGED <<taskOther, m_Done, m_Stop, shouldStop, generation, completions,
                 lastReset, callsLeft>>

\* Run: the reverb, the clamp and the meter
BodyClamp(t) ==
  /\ tpc[t] = "body_clamp"
  /\ buffer' = [state |-> "complete", gen |-> generation]
  /\ tpc' = [tpc EXCEPT ![t] = "body_done"]
  /\ UNCHANGED <<taskOther, m_Done, m_Stop, m_Mutex, tlocal, shouldStop, generation,
                 completions, lastReset, abandons, callsLeft>>

\* Run: m_Done.store(true)
BodyDone(t) ==
  /\ tpc[t] = "body_done"
  /\ m_Done' = TRUE
  /\ completions' = completions + 1
  /\ tpc' = [tpc EXCEPT ![t] = "run_unlock"]
  /\ UNCHANGED <<taskOther, m_Stop, m_Mutex, tlocal, shouldStop, buffer, generation,
                 lastReset, abandons, callsLeft>>

\* Run: the locker releases the mutex when Run returns
RunUnlock(t) ==
  /\ tpc[t] = "run_unlock"
  /\ m_Mutex' = m_Mutex \ {t}
  /\ tlocal' = [tlocal EXCEPT ![t].locked = FALSE]
  /\ tpc' = [tpc EXCEPT ![t] = "returned"]
  /\ UNCHANGED <<taskOther, m_Done, m_Stop, shouldStop, buffer, generation,
                 completions, lastReset, abandons, callsLeft>>

\* the caller of Run or Finish goes on
TaskReturn(t) ==
  /\ tpc[t] = "returned"
  /\ tpc' = [tpc EXCEPT ![t] = "idle"]
  /\ tlocal' = [tlocal EXCEPT ![t] = IdleThread]
  /\ UNCHANGED <<taskOther, m_Done, m_Stop, m_Mutex, shouldStop, buffer, generation,
                 completions, lastReset, abandons, callsLeft>>

\* Reset: GOMutexLocker locker(m_Mutex), called by the audio thread at the
\* end of NextPeriod
ResetLock(t) ==
  /\ ~IsWorker(t)
  /\ tpc[t] = "idle"
  /\ generation < MaxResets
  /\ "locked" \in LockOutcomes(FALSE, m_Mutex = {}, FALSE, FALSE)
  /\ m_Mutex' = {t}
  /\ tpc' = [tpc EXCEPT ![t] = "reset_done"]
  /\ tlocal' = [tlocal EXCEPT ![t] = [IdleThread EXCEPT !.op = "Reset", !.locked = TRUE]]
  /\ UNCHANGED <<taskOther, m_Done, m_Stop, shouldStop, buffer, generation,
                 completions, lastReset, abandons, callsLeft>>

\* Reset: m_Done.store(false)
ResetStoreDone(t) ==
  /\ tpc[t] = "reset_done"
  /\ m_Done' = FALSE
  /\ generation' = generation + 1
  /\ completions' = 0
  /\ tpc' = [tpc EXCEPT ![t] = "reset_stop"]
  /\ UNCHANGED <<taskOther, m_Stop, m_Mutex, tlocal, shouldStop, buffer, lastReset,
                 abandons, callsLeft>>

\* Reset: m_Stop.store(false), and the locker releases the mutex
ResetStoreStop(t) ==
  /\ tpc[t] = "reset_stop"
  /\ m_Stop' = FALSE
  /\ lastReset' = [seen |-> TRUE, done |-> m_Done, stop |-> m_Stop']
  /\ m_Mutex' = m_Mutex \ {t}
  /\ tpc' = [tpc EXCEPT ![t] = "idle"]
  /\ tlocal' = [tlocal EXCEPT ![t] = IdleThread]
  /\ UNCHANGED <<taskOther, m_Done, shouldStop, buffer, generation, completions,
                 abandons, callsLeft>>

\* a worker thread is asked to stop
AskToStop(t) ==
  /\ IsWorker(t)
  /\ ~shouldStop[t]
  /\ shouldStop' = [shouldStop EXCEPT ![t] = TRUE]
  /\ UNCHANGED <<taskOther, m_Done, m_Stop, m_Mutex, tpc, tlocal, buffer, generation,
                 completions, lastReset, abandons, callsLeft>>

InitTask ==
  /\ SoundSystemClosed
  /\ m_LifecycleState = IDLE
  /\ m_CurrentTime = 1
  /\ periods = 0
  /\ assertFailed = FALSE
  /\ engOp = "none"
  /\ engPrev = IDLE
  /\ engServed = "none"
  /\ engOpsLeft = 0
  /\ TaskUntouched(MaxCalls)
  /\ VoicesUntouched(0)
  /\ RestUntouched

NextTask ==
  \E t \in Threads :
    \/ TaskRun(t)
    \/ \E stop \in BOOLEAN : TaskFinish(t, stop)
    \/ FinishCheck(t)
    \/ RunCheck1(t)
    \/ RunLock(t)
    \/ RunCheck2(t)
    \/ BodyFill(t)
    \/ BodyMix(t)
    \/ BodyClamp(t)
    \/ BodyDone(t)
    \/ RunUnlock(t)
    \/ TaskReturn(t)
    \/ ResetLock(t)
    \/ ResetStoreDone(t)
    \/ ResetStoreStop(t)
    \/ AskToStop(t)

SpecTask == InitTask /\ [][NextTask]_vars

\* C7: between two Resets the body of Run sets done at most once; a Run or a
\* Finish that starts after done is set never enters the body, so it leaves
\* the buffer and the meter alone; Reset leaves done and stop cleared, and
\* no thread is in the body of Run while Reset stores them.
C7_AtMostOnceBetweenResets ==
  /\ completions <= 1
  /\ \A t \in Threads :
       (InBody(t) /\ tlocal[t].doneAtStart) => tlocal[t].startGen # generation
  /\ \A t \in Threads : InReset(t) => \A u \in Threads : ~InBody(u)
  /\ lastReset.seen => (~lastReset.done /\ ~lastReset.stop)

\* after a Reset the body has run once, and a call that started after done
\* was set has returned
C7_Witness ==
  /\ lastReset.seen
  /\ completions = 1
  /\ \E t \in Threads :
       /\ tpc[t] = "returned"
       /\ tlocal[t].doneAtStart
       /\ tlocal[t].startGen = generation

FinishReturned(t) ==
  /\ tpc[t] = "returned"
  /\ tlocal[t].op = "Finish"
  /\ tlocal[t].startGen = generation

\* C8: when Finish returns on the audio thread, or on a worker thread that
\* is not asked to stop, done is set and the buffer holds the complete mix of
\* the period.
C8_FinishReturnsComplete ==
  \A t \in Threads :
    (FinishReturned(t) /\ ~StopRequested(t)) =>
      /\ m_Done
      /\ buffer = [state |-> "complete", gen |-> generation]

\* Finish returns on the audio thread after it has waited for the mutex and
\* a worker has abandoned a Run of the period
C8_Witness ==
  /\ FinishReturned(0)
  /\ tlocal[0].waited
  /\ generation \in abandons

\* C9 as the specification states it: a thread that finds the mutex of the
\* task held retreats, it never waits for the mutex.
C9_RunNeverWaits == \A t \in Threads : tpc[t] # "run_wait"

\* C9: Run takes the mutex of the task with a blocking lock: a thread leaves
\* the lock without the mutex only if it is a worker thread that is asked to
\* stop.
C9_RunWaitsForTheMutex ==
  \A t \in Threads :
    (tpc[t] = "run_check2" /\ ~tlocal[t].locked) => StopRequested(t)

\* a thread that waited for the mutex runs the body
C9_Witness ==
  \E t \in Threads : tlocal[t].waited /\ tpc[t] = "body_fill"

(***************************************************************************)
(* GOSoundOrganEngine: StartPipeSample, StartTremulantSample and the       *)
(* processing of the samplers (specification SpecVoice)                    *)
(***************************************************************************)

Min(a, b) == IF a < b THEN a ELSE b

\* inline static unsigned isWindchestTask(int taskId)
isWindchestTask(taskId) == taskId >= 0
\* inline static unsigned tremulantTaskToIndex(int taskId)
tremulantTaskToIndex(taskId) == (0 - taskId) - 1

\* GOSoundSamplerPool::GetSampler: a free sampler, or none when the number of
\* used samplers has reached the usage limit
GetSampler(used, limit) ==
  IF Cardinality(used) < limit /\ Samplers \ used # {}
  THEN CHOOSE x \in Samplers \ used : \A y \in Samplers \ used : x <= y
  ELSE NullSampler

\* a start that goes on with whatever the provider returned
SectionPlaysAlways(section) == TRUE
\* if (section && section->GetChannels())
SectionPlays(section) == section.found /\ section.channels # 0

\* if (sampler)
SamplerAcquiredAlways(sampler) == TRUE
SamplerAcquired(sampler) == sampler # NullSampler

\* the queues after PassSampler(sampler)
GroupTasksAfter(sampler, taskId, group) ==
  IF isWindchestTask(taskId)
  THEN [groupTasks EXCEPT ![group] = @ \cup {sampler}]
  ELSE groupTasks
TremulantTasksAfter(sampler, taskId) ==
  IF isWindchestTask(taskId)
  THEN tremulantTasks
  ELSE [tremulantTasks EXCEPT ![tremulantTaskToIndex(taskId)] = @ \cup {sampler}]

NonNull(seq) == Cardinality({i \in DOMAIN seq : seq[i] # NullSampler})

voiceOther == <<soundVars, lifeVars, engVars, taskVars, restVars>>

\* SetHardPolyphony(polyphony), called while no sampler is in use
SetHardPolyphony(polyphony) ==
  /\ ~configured
  /\ configured' = TRUE
  /\ m_UsageLimit' = polyphony
  /\ m_PolyphonySoftLimit' = SoftLimit(polyphony)
  /\ UNCHANGED <<voiceOther, poolUsed, samplers, groupTasks, tremulantTasks, handles,
                 withSection, returnedAny, lastCall, startsLeft>>

\* CreateTaskSample(pSoundProvider, samplerTaskId, audioGroup, ..., isRelease, ...)
\* section: what pSoundProvider->GetSection or GetAttack returned
CreateTaskSample(section, samplerTaskId, audioGroup, isRelease) ==
  LET hasSection == SectionPlays(section)
      sampler == IF hasSection THEN GetSampler(poolUsed, m_UsageLimit) ELSE NullSampler
      started == hasSection /\ SamplerAcquired(sampler)
  IN /\ configured
     /\ startsLeft > 0
     /\ startsLeft' = startsLeft - 1
     /\ poolUsed' = IF started /\ sampler # NullSampler
                    THEN poolUsed \cup {sampler} ELSE poolUsed
     /\ samplers' = IF started /\ sampler # NullSampler
                    THEN [samplers EXCEPT ![sampler] = [taskId |-> samplerTaskId,
                                                        group |-> audioGroup,
                                                        release |-> isRelease]]
                    ELSE samplers
     /\ groupTasks' = IF started
                      THEN GroupTasksAfter(sampler, samplerTaskId, audioGroup)
                      ELSE groupTasks
     /\ tremulantTasks' = IF started
                          THEN TremulantTasksAfter(sampler, samplerTaskId)
                          ELSE tremulantTasks
     /\ handles' = Append(handles, sampler)
     /\ withSection' = withSection + (IF hasSection THEN 1 ELSE 0)
     /\ lastCall' = [exhausted |-> hasSection /\ Cardinality(poolUsed) >= m_UsageLimit,
                     result |-> sampler,
                     unchanged |-> /\ poolUsed' = poolUsed
                                   /\ samplers' = samplers
                                   /\ groupTasks' = groupTasks
                                   /\ tremulantTasks' = tremulantTasks,
                     section |-> section]
     /\ UNCHANGED <<voiceOther, m_UsageLimit, m_PolyphonySoftLimit, configured,
                    returnedAny>>

\* StartPipeSample(pipeProvider, windchestN, audioGroup, velocity, delay,
\* prevEventTime, isRelease, pStartTimeSamples)
StartPipeSample(section, windchestN, audioGroup, isRelease) ==
  CreateTaskSample(section, windchestN, audioGroup, isRelease)

\* StartTremulantSample(tremProvider, tremulantN, prevEventTime)
StartTremulantSample(section, tremulantN) ==
  CreateTaskSample(section, 0 - tremulantN, 0, FALSE)

\* ProcessSampler returns false for a sampler that has ended or is silent:
\* ReturnSampler(sampler), and the task drops it from its queue
ProcessSampler(sampler) ==
  /\ sampler \in poolUsed
  /\ poolUsed' = poolUsed \ {sampler}
  /\ samplers' = [samplers EXCEPT ![sampler] = FreeSampler]
  /\ groupTasks' = [g \in AudioGroups |-> groupTasks[g] \ {sampler}]
  /\ tremulantTasks' = [k \in TremulantTasks |-> tremulantTasks[k] \ {sampler}]
  /\ returnedAny' = TRUE
  /\ UNCHANGED <<voiceOther, m_UsageLimit, m_PolyphonySoftLimit, configured, handles,
                 withSection, lastCall, startsLeft>>

InitVoice ==
  /\ SoundSystemClosed
  /\ m_LifecycleState = IDLE
  /\ m_CurrentTime = 1
  /\ periods = 0
  /\ assertFailed = FALSE
  /\ engOp = "none"
  /\ engPrev = IDLE
  /\ engServed = "none"
  /\ engOpsLeft = 0
  /\ TaskUntouched(0)
  /\ VoicesUntouched(MaxStarts)
  /\ RestUntouched

NextVoice ==
  \/ \E polyphony \in 0 .. MaxPolyphony : SetHardPolyphony(polyphony)
  \/ \E section \in Sections, windchestN \in Windchests, audioGroup \in AudioGroups,
        isRelease \in BOOLEAN :
       StartPipeSample(section, windchestN, audioGroup, isRelease)
  \/ \E section \in Sections, tremulantN \in Tremulants :
       StartTremulantSample(section, tremulantN)
  \/ \E sampler \in Samplers : ProcessSampler(sampler)

SpecVoice == InitVoice /\ [][NextVoice]_vars

\* C10: the pool never hands out more samplers than the hard polyphony; as
\* long as no sampler was returned, the start calls on providers with a
\* section got min(k, C) samplers; a start call on the exhausted pool returns
\* null and leaves the pool and the queues of the tasks as they were.
C10_HardPolyphonyCap ==
  configured =>
    /\ Cardinality(poolUsed) <= m_UsageLimit
    /\ ~returnedAny => NonNull(handles) = Min(withSection, m_UsageLimit)
    /\ lastCall.exhausted => (lastCall.result = NullSampler /\ lastCall.unchanged)

\* more start calls than the hard polyphony, none returned, the last one on
\* the exhausted pool
C10_Witness ==
  /\ configured
  /\ m_UsageLimit > 1
  /\ lastCall.exhausted
  /\ ~returnedAny
  /\ withSection > m_UsageLimit
  /\ NonNull(handles) = m_UsageLimit

\* C22: a start request for which the provider returns no section, or a
\* section with no channels, starts no voice: the call returns null, takes
\* no sampler from the pool, and leaves the used samplers of the pool, the
\* samplers and the queues of all tasks as they were.
C22_NoSectionNoVoice ==
  (~lastCall.section.found \/ lastCall.section.channels = 0) =>
    (lastCall.result = NullSampler /\ lastCall.unchanged)

\* a start call without a usable section, after a voice was started and
\* while the pool still has a free sampler
C22_Witness ==
  /\ configured
  /\ handles # <<>>
  /\ lastCall.section \in {NoSection, [found |-> TRUE, channels |-> 0]}
  /\ poolUsed # {}
  /\ Cardinality(poolUsed) < m_UsageLimit

\* ---------------------------------------------------------------------------
\* The voices of the engine: who holds a slot, and what the calls on a handle
\* do to it (SpecSampler)
\* ---------------------------------------------------------------------------

\* the largest delay of a start call, in samples
MaxDelay == 3
\* the calls of the organ model on the engine
MaxVoiceOps == 3
\* the periods that pass while the voices play
MaxVoicePeriods == 1

Delays == {0, MaxDelay}
\* sampler->drop_counter as a task leaves it
DropCounters == {0, 2}
Velocities == {2}

RECURSIVE SumOver(_, _)
SumOver(f, set) ==
  IF set = {} THEN 0
  ELSE LET x == CHOOSE y \in set : TRUE IN f[x] + SumOver(f, set \ {x})

\* the engine as the constructor and BuildEngine configure it
EngineConfig ==
  [m_SampleRate |-> 48000, m_IsPolyphonyLimiting |-> TRUE, m_IsScaledReleases |-> TRUE]
\* what the provider of a pipe answers: GetAttackSwitchCrossfadeLength() and
\* GetReleaseTail(), in ms
PipeProvider == [attackSwitchCrossfade |-> 50, releaseTail |-> 0]
\* the release section of the provider: GetReleaseCrossfadeLength() in ms,
\* GetLength() in samples, GetSampleRate()
ReleaseSection == [releaseCrossfade |-> 30, length |-> 96000, sampleRate |-> 48000]

\* unsigned MsToSamples(unsigned ms) const { return m_SampleRate * ms / 1000; }
\* the product stays below 2^31 for every ms the model passes
MsToSamples(ms) == (EngineConfig.m_SampleRate * ms) \div 1000

\* GOSoundSamplerPool::GetSampler: a slot of the free list, or null
PoolGetSampler(S) ==
  IF \A s \in Samplers : S.free[s] = 0 THEN NullSampler
  ELSE CHOOSE s \in Samplers :
         S.free[s] > 0 /\ \A t \in Samplers : S.free[t] > 0 => s <= t
\* the slot leaves the free list with its fields reset
TakeSampler(S, s) ==
  [S EXCEPT !.free[s] = @ - 1, !.voice[s] = ResetSampler, !.acquired[s] = @ + 1,
            !.seenSilent[s] = FALSE, !.spawns[s] = 0]

\* GOSoundGroupTask::Add, GOSoundTremulantTask::Add: the pending adds
AddPending(S, key, s) == [S EXCEPT !.pending[key][s] = @ + 1]

\* void GOSoundOrganEngine::PassSampler(GOSoundSampler *sampler): both tasks
PassSamplerToBoth(S, s) ==
  AddPending(AddPending(S, GroupKey(S.voice[s].m_AudioGroupId), s),
             TremulantKey(0), s)
\* void GOSoundOrganEngine::PassSampler(GOSoundSampler *sampler)
PassSampler(S, s) ==
  LET taskId == S.voice[s].m_SamplerTaskId
  IN IF isWindchestTask(taskId)
       THEN AddPending(S, GroupKey(S.voice[s].m_AudioGroupId), s)
       ELSE AddPending(S, TremulantKey(tremulantTaskToIndex(taskId)), s)

\* void GOSoundOrganEngine::StartSampler(GOSoundSampler *sampler)
StartSampler(S, s) ==
  PassSampler([S EXCEPT !.voice[s].stop = 0, !.voice[s].new_attack = 0], s)

\* the voice stays acquired
ReturnSamplerLost(S, s) == S
\* void GOSoundOrganEngine::ReturnSampler(GOSoundSampler *sampler)
ReturnSampler(S, s) == [S EXCEPT !.free[s] = @ + 1, !.seenSilent[s] = FALSE]

\* the sampler CreateTaskSample returns
TaskSampler(S, hasSection) ==
  IF hasSection THEN PoolGetSampler(S) ELSE NullSampler
\* GOSoundOrganEngine::CreateTaskSample, on the state S at time now
CreateTaskSampleOn(S, now, provider, samplerTaskId, audioGroup, velocity, delay_samples, isRelease, hasSection) ==
  LET sampler == TaskSampler(S, hasSection)
  IN IF sampler = NullSampler THEN S
     ELSE StartSampler(
            [TakeSampler(S, sampler) EXCEPT
               !.voice[sampler] =
                 [ResetSampler EXCEPT
                    !.p_SoundProvider = provider,
                    !.velocity = velocity,
                    !.delay = delay_samples,
                    !.time = now + delay_samples,
                    !.is_release = isRelease,
                    !.m_SamplerTaskId = samplerTaskId,
                    !.m_AudioGroupId = audioGroup]],
            sampler)

\* fader.StartDecreasingVolume(samples)
StartDecreasingVolume(v, samples) == [v EXCEPT !.decaying = TRUE, !.decay = samples]
\* fader.Setup(gain_target, velocityVolume, crossFadeSamples)
FaderSetup(v, crossFadeSamples) ==
  [v EXCEPT !.fadeIn = crossFadeSamples, !.decaying = FALSE, !.decay = 0]

\* the voice goes on with the attack it plays
SwitchToNoAttack(S, now, p, hasSection) == S
\* void GOSoundOrganEngine::SwitchToAnotherAttack(GOSoundSampler *pSampler)
SwitchToAnotherAttack(S, now, p, hasSection) ==
  LET new_sampler == PoolGetSampler(S)
      crossFadeSamples == MsToSamples(PipeProvider.attackSwitchCrossfade)
  IN IF /\ S.voice[p].p_SoundProvider # NoProvider
        /\ ~S.voice[p].is_release
        /\ hasSection
        /\ new_sampler # NullSampler
       THEN StartSampler(
              [TakeSampler(S, new_sampler) EXCEPT
                 !.voice[new_sampler] =
                   StartDecreasingVolume(
                     [S.voice[p] EXCEPT !.is_release = TRUE, !.time = now],
                     crossFadeSamples),
                 !.voice[p] =
                   FaderSetup([S.voice[p] EXCEPT !.time = now + 1, !.is_release = FALSE],
                              crossFadeSamples),
                 !.seenSilent[p] = FALSE],
              new_sampler)
       ELSE S

\* int time_to_full_reverb = ((60 * release_section->GetLength())
\*   / release_section->GetSampleRate()) + 40, kept within 100 .. 350; the
\* lengths of the model keep 60 * length below 2^31
TimeToFullReverb(length, sampleRate) ==
  LET ttr == (60 * length) \div sampleRate + 40
  IN IF ttr > 350 THEN 350 ELSE IF ttr < 100 THEN 100 ELSE ttr
\* if (time < time_to_full_reverb) gain_decay_length = time_to_full_reverb
\*   + 6000 * time / time_to_full_reverb; 0 stands for no decay
ScaledDecayLength(time, length, sampleRate) ==
  LET ttr == TimeToFullReverb(length, sampleRate)
  IN IF time < ttr THEN ttr + (6000 * time) \div ttr ELSE 0
\* the decay of the release voice as the scaling alone sets it
DecayOfScalingOnly(scaled, releaseLength) == scaled
\* if (releaseLength > 0 && (releaseLength < gain_decay_length
\*   || gain_decay_length == 0)) gain_decay_length = releaseLength;
DecayWithReleaseTail(scaled, releaseLength) ==
  IF releaseLength > 0 /\ (releaseLength < scaled \/ scaled = 0)
    THEN releaseLength ELSE scaled
\* the gain_decay_length of CreateReleaseSampler at its line 1056
GainDecayLength(not_a_tremulant, isScaled, time, length, sampleRate, releaseLength) ==
  DecayWithReleaseTail(
    IF not_a_tremulant /\ isScaled
      THEN ScaledDecayLength(time, length, sampleRate) ELSE 0,
    releaseLength)

\* the crossfade of a stop: release_section ? release_section->
\* GetReleaseCrossfadeLength() : this_pipe->GetAttackSwitchCrossfadeLength()
StopCrossfadeOfProvider(hasSection) == PipeProvider.attackSwitchCrossfade
StopCrossfade(hasSection) ==
  IF hasSection THEN ReleaseSection.releaseCrossfade
  ELSE PipeProvider.attackSwitchCrossfade

\* the task of a release voice: the task of the voice it releases
ReleaseTaskIdOfHandle(taskId) == taskId
\* not_a_tremulant ? DETACHED_RELEASE_TASK_ID : handle->m_SamplerTaskId
ReleaseTaskId(taskId) ==
  IF isWindchestTask(taskId) THEN DETACHED_RELEASE_TASK_ID ELSE taskId

\* void GOSoundOrganEngine::CreateReleaseSampler(GOSoundSampler *handle);
\* vol: whether the volume of the windchest of the handle is not zero
CreateReleaseSampler(S, now, handle, hasSection, vol) ==
  LET new_sampler == PoolGetSampler(S)
      h == S.voice[handle]
      crossFadeSamples == MsToSamples(StopCrossfade(hasSection))
      faded ==
        [S EXCEPT !.voice[handle] =
           [StartDecreasingVolume(h, crossFadeSamples) EXCEPT !.is_release = TRUE]]
      not_a_tremulant == isWindchestTask(h.m_SamplerTaskId)
      time == ((now - h.time) * 1000) \div EngineConfig.m_SampleRate
      gain_decay_length ==
        GainDecayLength(not_a_tremulant, EngineConfig.m_IsScaledReleases, time,
                        ReleaseSection.length, ReleaseSection.sampleRate,
                        PipeProvider.releaseTail)
      setup ==
        FaderSetup(
          [ResetSampler EXCEPT
             !.p_SoundProvider = h.p_SoundProvider,
             !.time = now + 1,
             !.is_release = TRUE,
             !.m_SamplerTaskId = ReleaseTaskId(h.m_SamplerTaskId),
             !.m_AudioGroupId = h.m_AudioGroupId],
          crossFadeSamples)
  IN IF h.p_SoundProvider = NoProvider THEN S
     ELSE IF (vol \/ ~not_a_tremulant) /\ hasSection /\ new_sampler # NullSampler
       THEN [StartSampler(
               [TakeSampler(faded, new_sampler) EXCEPT
                  !.voice[new_sampler] =
                    IF gain_decay_length > 0
                      THEN StartDecreasingVolume(setup, MsToSamples(gain_decay_length))
                      ELSE setup],
               new_sampler)
             EXCEPT !.voice[handle].time = now,
                    !.spawns[handle] = IF S.history THEN @ + 1 ELSE @]
       ELSE faded

\* the number of holders of a slot: the free list of the pool, the queue of
\* the release task, the pending adds and the active lists of the tasks
HeldByTasks(S, s) ==
  SumOver([t \in VoiceTasks |-> S.pending[t][s] + S.active[t][s]], VoiceTasks)
Holders(S, s) == S.free[s] + S.release[s] + HeldByTasks(S, s)
\* GOSoundSamplerPool::UsedSamplerCount
UsedSamplerCount(S) == Cardinality({s \in Samplers : S.free[s] = 0})

sampOther == <<soundVars, engVars, taskVars, voiceVars, resVars, outVars, extVars, m_LifecycleState, assertFailed>>

\* a call of the organ model that starts a voice and keeps the handle
VoiceStarted(provider, samplerTaskId, audioGroup, velocity, delay_samples, isRelease, hasSection) ==
  LET sampler == TaskSampler(samplerState, hasSection)
      after == CreateTaskSampleOn(samplerState, m_CurrentTime, provider,
                 samplerTaskId, audioGroup, velocity, delay_samples,
                 isRelease, hasSection)
  IN /\ voiceOpsLeft > 0
     /\ voiceOpsLeft' = voiceOpsLeft - 1
     /\ samplerState' = after
     /\ issued' =
          IF sampler = NullSampler THEN issued
          ELSE issued \cup {[slot |-> sampler, provider |-> provider,
                             gen |-> after.acquired[sampler]]}
     /\ lastAccess' = NoAccess
     /\ lastPass' = NoPass
     /\ UNCHANGED <<sampOther, m_CurrentTime, periods>>

\* StartPipeSample(pipeProvider, windchestN, audioGroup, velocity, delay, ...)
VoiceStartPipeSample(provider, windchestN, audioGroup, delay_samples, isRelease, hasSection) ==
  VoiceStarted(provider, windchestN, audioGroup, 1, delay_samples, isRelease,
               hasSection)

\* StartTremulantSample(tremProvider, tremulantN, prevEventTime)
VoiceStartTremulantSample(provider, tremulantN, hasSection) ==
  VoiceStarted(provider, 0 - tremulantN, 0, 1, 0, FALSE, hasSection)

\* the top of the run of a task: the pending adds join the active list
DrainAdds(task) ==
  /\ \E s \in Samplers : samplerState.pending[task][s] > 0
  /\ samplerState' =
       [samplerState EXCEPT
          !.active[task] =
            [s \in Samplers |-> @[s] + samplerState.pending[task][s]],
          !.pending[task] = NoVoices]
  /\ lastAccess' = NoAccess
  /\ lastPass' = NoPass
  /\ UNCHANGED <<sampOther, m_CurrentTime, periods, issued, voiceOpsLeft>>

\* (sampler->stop && sampler->stop <= m_CurrentTime)
\*   || (sampler->new_attack && sampler->new_attack <= m_CurrentTime)
ReleaseDue(v, now) ==
  \/ v.stop # 0 /\ v.stop <= now
  \/ v.new_attack # 0 /\ v.new_attack <= now

\* const bool process_sampler = true
DueAlways(time, now) == TRUE
\* const bool process_sampler = (sampler->time <= m_CurrentTime)
Due(time, now) == time <= now

\* sampler->is_release && ((m_IsPolyphonyLimiting && m_SamplerPool
\* .UsedSamplerCount() >= m_PolyphonySoftLimit && m_CurrentTime - sampler->time
\* > 172 * 16) || sampler->drop_counter > 1)
DropsRelease(is_release, limiting, used, soft, age, drop_counter) ==
  is_release /\ ((limiting /\ used >= soft /\ age > 172 * 16) \/ drop_counter > 1)

\* the pending adds of the tasks of a sampler
PendingAt(S, key, s) == S.pending[key][s]
PendingElsewhere(S, key, s) ==
  SumOver([t \in VoiceTasks |-> IF t = key THEN 0 ELSE S.pending[t][s]], VoiceTasks)
\* the task PassSampler gives a voice to
TaskKeyOf(v) ==
  IF isWindchestTask(v.m_SamplerTaskId) THEN GroupKey(v.m_AudioGroupId)
  ELSE TremulantKey(tremulantTaskToIndex(v.m_SamplerTaskId))

\* bool GOSoundOrganEngine::ProcessSampler, called by the task that holds the
\* sampler in its active list; false drops the sampler from the list.
\* readBlock: what stream.ReadBlock returns; isSilent: fader.IsSilent() after
\* the block; drop_counter: the counter of the sampler as the task left it
VoiceProcessSampler(task, sampler, readBlock, isSilent, drop_counter) ==
  LET v == samplerState.voice[sampler]
      process_sampler == Due(v.time, m_CurrentTime)
      used == UsedSamplerCount(samplerState)
      accelerated ==
        /\ process_sampler
        /\ DropsRelease(v.is_release, EngineConfig.m_IsPolyphonyLimiting, used,
                        m_PolyphonySoftLimit, m_CurrentTime - v.time, drop_counter)
      faded ==
        IF accelerated
          THEN [samplerState EXCEPT
                  !.voice[sampler] = StartDecreasingVolume(v, MsToSamples(370))]
          ELSE samplerState
      read ==
        IF process_sampler /\ ~readBlock
          THEN [faded EXCEPT !.voice[sampler].p_SoundProvider = NoProvider]
          ELSE faded
      seen ==
        IF process_sampler /\ isSilent /\ samplerState.history
          THEN [read EXCEPT !.seenSilent[sampler] = TRUE] ELSE read
      dropped == [seen EXCEPT !.active[task][sampler] = @ - 1]
      toRelease == process_sampler /\ ReleaseDue(read.voice[sampler], m_CurrentTime)
      returned ==
        /\ ~toRelease
        /\ \/ read.voice[sampler].p_SoundProvider = NoProvider
           \/ (isSilent /\ process_sampler)
  IN /\ samplerState.active[task][sampler] > 0
     /\ process_sampler \/ readBlock
     /\ drop_counter = 0 \/ (process_sampler /\ v.is_release)
     /\ samplerState' =
          IF toRelease THEN [dropped EXCEPT !.release[sampler] = @ + 1]
          ELSE IF returned THEN ReturnSampler(dropped, sampler)
          ELSE seen
     /\ lastAccess' = NoAccess
     /\ lastPass' =
          IF ~samplerState.history THEN NoPass ELSE
          [NoPass EXCEPT
             !.op = "ProcessSampler", !.sampler = sampler, !.now = m_CurrentTime,
             !.before = v, !.after = samplerState'.voice[sampler],
             !.due = v.time <= m_CurrentTime, !.silent = isSilent,
             !.emitted = process_sampler, !.advanced = process_sampler,
             !.accelerated = accelerated, !.toRelease = toRelease,
             !.returned = returned, !.kept = ~toRelease /\ ~returned,
             !.used = used, !.usedAfter = UsedSamplerCount(samplerState'),
             !.drop_counter = drop_counter]
     /\ UNCHANGED <<sampOther, m_CurrentTime, periods, issued, voiceOpsLeft>>

\* void GOSoundOrganEngine::ProcessRelease(GOSoundSampler *sampler), called by
\* the release task for a sampler of its queue
ProcessRelease(sampler, hasSection, vol) ==
  LET taken == [samplerState EXCEPT !.release[sampler] = @ - 1]
      v == samplerState.voice[sampler]
      branch ==
        IF v.stop # 0 THEN "stop" ELSE IF v.new_attack # 0 THEN "new_attack"
        ELSE "none"
      done ==
        IF v.stop # 0
          THEN [CreateReleaseSampler(taken, m_CurrentTime, sampler, hasSection, vol)
                  EXCEPT !.voice[sampler].stop = 0]
        ELSE IF v.new_attack # 0
          THEN [SwitchToAnotherAttack(taken, m_CurrentTime, sampler, hasSection)
                  EXCEPT !.voice[sampler].new_attack = 0]
        ELSE taken
      new_sampler ==
        IF UsedSamplerCount(done) > UsedSamplerCount(taken)
          THEN PoolGetSampler(taken) ELSE NullSampler
      after == PassSampler(done, sampler)
      key == TaskKeyOf(after.voice[sampler])
  IN /\ samplerState.release[sampler] > 0
     /\ vol \/ v.stop # 0
     /\ samplerState' = after
     /\ lastAccess' = NoAccess
     /\ lastPass' =
          IF ~samplerState.history THEN NoPass ELSE
          [NoPass EXCEPT
             !.op = "ProcessRelease", !.sampler = sampler, !.now = m_CurrentTime,
             !.before = v, !.after = after.voice[sampler], !.branch = branch,
             !.hasSection = hasSection, !.vol = vol,
             !.used = UsedSamplerCount(taken),
             !.usedAfter = UsedSamplerCount(after),
             !.poolFree = PoolGetSampler(taken) # NullSampler,
             !.spawned = new_sampler,
             !.spawnedVoice =
               IF new_sampler = NullSampler THEN ResetSampler
               ELSE after.voice[new_sampler],
             !.spawnedTo =
               IF new_sampler = NullSampler THEN 0 - 1
               ELSE IF PendingAt(after, TaskKeyOf(after.voice[new_sampler]), new_sampler)
                         = 1
                       /\ PendingElsewhere(after, TaskKeyOf(after.voice[new_sampler]),
                                           new_sampler) = 0
                 THEN TaskKeyOf(after.voice[new_sampler]) ELSE 0 - 2,
             !.passed = PendingAt(after, key, sampler)
                          - PendingAt(samplerState, key, sampler),
             !.passedOther = PendingElsewhere(after, key, sampler)
                               - PendingElsewhere(samplerState, key, sampler)]
     /\ UNCHANGED <<sampOther, m_CurrentTime, periods, issued, voiceOpsLeft>>

\* handle->stop = m_CurrentTime + handle->delay
StopTimeNow(now, delay) == now
StopTime(now, delay) == now + delay

\* a call on a handle: the access it makes to the slot of the handle
HandleCall(op, handle, after) ==
  LET before == samplerState.voice[handle.slot]
      matched == handle.provider = before.p_SoundProvider
  IN /\ voiceOpsLeft > 0
     /\ voiceOpsLeft' = voiceOpsLeft - 1
     /\ samplerState' =
          IF matched THEN [samplerState EXCEPT !.voice[handle.slot] = after]
          ELSE samplerState
     /\ lastAccess' =
          [op |-> op,
           matched |-> matched,
           stale |-> samplerState.acquired[handle.slot] # handle.gen,
           mutated |-> matched,
           time |-> m_CurrentTime,
           before |-> before,
           after |-> samplerState'.voice[handle.slot],
           result |-> IF matched /\ op = "StopSample" THEN after.stop ELSE 0,
           othersKept |->
             samplerState' =
               [samplerState EXCEPT
                  !.voice[handle.slot] = samplerState'.voice[handle.slot]]]
     /\ lastPass' = NoPass
     /\ UNCHANGED <<sampOther, m_CurrentTime, periods, issued>>

\* uint64_t StopSample(const GOSoundProvider *pipe, GOSoundSampler *handle)
StopSample(handle) ==
  HandleCall("StopSample", handle,
    [samplerState.voice[handle.slot] EXCEPT
       !.stop = StopTime(m_CurrentTime, samplerState.voice[handle.slot].delay)])

\* void SwitchSample(const GOSoundProvider *pipe, GOSoundSampler *handle)
SwitchSample(handle) ==
  HandleCall("SwitchSample", handle,
    [samplerState.voice[handle.slot] EXCEPT
       !.new_attack = m_CurrentTime + samplerState.voice[handle.slot].delay])

\* void UpdateVelocity(pipe, handle, velocity)
UpdateVelocity(handle, velocity) ==
  HandleCall("UpdateVelocity", handle,
    [samplerState.voice[handle.slot] EXCEPT !.velocity = velocity])

\* NextPeriod: m_CurrentTime += m_NSamplesPerBuffer
VoiceNextPeriod ==
  /\ m_CurrentTime < 1 + NSamples * MaxVoicePeriods
  /\ m_CurrentTime' = m_CurrentTime + NSamples
  /\ periods' = periods + 1
  /\ lastAccess' = NoAccess
  /\ lastPass' = NoPass
  /\ UNCHANGED <<sampOther, samplerState, issued, voiceOpsLeft>>

InitSampler ==
  /\ SoundSystemClosed
  /\ m_LifecycleState = WORKING
  /\ m_CurrentTime = 1
  /\ periods = 0
  /\ assertFailed = FALSE
  /\ engOp = "none"
  /\ engPrev = IDLE
  /\ engServed = "none"
  /\ engOpsLeft = 0
  /\ TaskUntouched(0)
  /\ VoicesUntouched(0)
  /\ SamplersUntouched(MaxVoiceOps)
  /\ engine = NoEngine(FALSE)
  /\ OutputUntouched(0)
  /\ ExtUntouched

NextSampler ==
  \/ \E provider \in PipeProviders, windchestN \in 1 .. MaxWindchests,
        audioGroup \in AudioGroups, delay_samples \in Delays,
        isRelease \in BOOLEAN, hasSection \in BOOLEAN :
       VoiceStartPipeSample(provider, windchestN, audioGroup, delay_samples,
                            isRelease, hasSection)
  \/ \E provider \in TremulantProviders, tremulantN \in Tremulants, hasSection \in BOOLEAN :
       VoiceStartTremulantSample(provider, tremulantN, hasSection)
  \/ \E task \in VoiceTasks : DrainAdds(task)
  \/ \E task \in VoiceTasks, sampler \in Samplers, readBlock \in BOOLEAN,
        isSilent \in BOOLEAN, drop_counter \in DropCounters :
       VoiceProcessSampler(task, sampler, readBlock, isSilent, drop_counter)
  \/ \E sampler \in Samplers, hasSection \in BOOLEAN, vol \in BOOLEAN :
       ProcessRelease(sampler, hasSection, vol)
  \/ \E handle \in issued : StopSample(handle)
  \/ \E handle \in issued : SwitchSample(handle)
  \/ \E handle \in issued, velocity \in Velocities : UpdateVelocity(handle, velocity)
  \/ VoiceNextPeriod

SpecSampler == InitSampler /\ [][NextSampler]_vars

\* C11: every voice slot has exactly one holder: the free list of the pool,
\* the pending adds of one task, the active list of one task, or the queue of
\* the release task; no slot is held twice or returned to the pool twice.
C11_SingleOwner ==
  \A s \in Samplers : Holders(samplerState, s) = 1

\* a slot that was returned and acquired again is in an active list while
\* another slot waits in the pending adds of a task
C11_Witness ==
  /\ \E s \in Samplers, t \in VoiceTasks :
       samplerState.acquired[s] >= 2 /\ samplerState.active[t][s] = 1
  /\ \E s \in Samplers, t \in VoiceTasks : samplerState.pending[t][s] = 1

\* the voices in the active lists of all tasks
ActiveVoices(S) ==
  SumOver([s \in Samplers |->
             SumOver([t \in VoiceTasks |-> S.active[t][s]], VoiceTasks)],
          Samplers)
\* the voices in the pending adds and the active lists of all tasks and in the
\* queue of the release task
HeldVoices(S) ==
  SumOver([s \in Samplers |-> S.release[s] + HeldByTasks(S, s)], Samplers)

\* C12: at the end of every period the used count of the pool equals the
\* number of voices held in the active lists of all tasks.
C12_UsedEqualsActive ==
  [][VoiceNextPeriod => UsedSamplerCount(samplerState) = ActiveVoices(samplerState)]_vars

\* C12, amended: the used count of the pool equals the number of voices held
\* in the pending adds and the active lists of all tasks and in the queue of
\* the release task.
C12_UsedEqualsHeld ==
  UsedSamplerCount(samplerState) = HeldVoices(samplerState)

\* after a period, one voice is in an active list while another is not yet in
\* one
C12_Witness ==
  /\ periods >= 1
  /\ UsedSamplerCount(samplerState) = 2
  /\ ActiveVoices(samplerState) = 1

\* C13: a call of StopSample, SwitchSample or UpdateVelocity with a stale
\* handle, one whose slot was acquired again after the handle was returned,
\* never writes to the voice that holds the slot now.
C13_StaleHandleRejected ==
  lastAccess.stale => ~lastAccess.mutated

\* C14: StopSample changes nothing and returns 0 when the provider of the
\* handle differs; otherwise it sets the stop time of the voice to the current
\* time plus the delay of the voice, returns it, and changes nothing else.
C14_StopSample ==
  lastAccess.op = "StopSample" =>
    /\ lastAccess.othersKept
    /\ IF lastAccess.matched
         THEN /\ lastAccess.result = lastAccess.time + lastAccess.before.delay
              /\ lastAccess.after =
                   [lastAccess.before EXCEPT !.stop = lastAccess.result]
         ELSE /\ lastAccess.result = 0
              /\ lastAccess.after = lastAccess.before

\* StopSample on a delayed voice in a later period
C14_Witness ==
  /\ lastAccess.op = "StopSample"
  /\ lastAccess.matched
  /\ lastAccess.before.delay > 0
  /\ lastAccess.time > 1
  /\ lastAccess.result = lastAccess.time + MaxDelay

\* C15: a voice that is in use and has a stop time starts no later than it
\* stops: start_time <= stop_time whenever stop_time # 0.
C15_StartBeforeStop ==
  \A s \in Samplers :
    (samplerState.free[s] = 0 /\ samplerState.voice[s].stop # 0) =>
      samplerState.voice[s].time <= samplerState.voice[s].stop

(***************************************************************************)
(* GOSoundOutputTask: the factors BuildEngine gives the task, and the mix, *)
(* the clamp and the meter of Run (specification SpecOutput)               *)
(***************************************************************************)

\* the frames of a buffer
NFrames == 2
\* the float 1.0f, in steps of 1 / FloatOne
FloatOne == 2
\* the periods the task runs
MaxRuns == 2

\* static constexpr float CLAMP_MIN = -1.0f, CLAMP_MAX = 1.0f
CLAMP_MIN == 0 - FloatOne
CLAMP_MAX == FloatOne
\* the samples of the audio groups: too loud and quiet
Samples == {0 - (FloatOne + 1), FloatOne - 1}
\* the factors of the configuration of a device, in dB
DbValues == {-121, 0, 20, 40}

Abs(x) == IF x < 0 THEN 0 - x ELSE x
\* the sample is left as it is
ClampNone(x) == x
\* std::clamp(*pData, CLAMP_MIN, CLAMP_MAX)
Clamp(x) == IF x < CLAMP_MIN THEN CLAMP_MIN ELSE IF CLAMP_MAX < x THEN CLAMP_MAX ELSE x

\* powf(10.0f, factor * 0.05f) for the factors of DbValues
Powf10(dB) == IF dB = 20 THEN 10 ELSE 1
\* [B2] if (factor >= -120 && factor < 40) factor = powf(...); else factor = 0
DeviceFactor(dB) == IF dB >= -120 /\ dB < 40 THEN Powf10(dB) ELSE 0

\* [B2] the factors of the output task of a device whose configuration routes
\* the left side of every group to the even channels and the right side to
\* the odd channels with dB, and mutes the rest
DeviceScaleFactors(nAudioGroups, nChannels, dB) ==
  [x \in 0 .. (nAudioGroups * nChannels * 2 - 1) |->
     LET channelI == x \div (nAudioGroups * 2)
         k == x % (nAudioGroups * 2)
     IN DeviceFactor(IF k % 2 = channelI % 2 THEN dB ELSE -121)]

\* [B3] the factors of the downmix task: scaleFactors[groupI * 4] = 1 and
\* scaleFactors[groupI * 4 + 3] = 1 for every group, 0 elsewhere
DownmixScaleFactors(nAudioGroups) ==
  [x \in 0 .. (nAudioGroups * 2 * 2 - 1) |->
     IF \E groupI \in 0 .. (nAudioGroups - 1) : x = groupI * 4 \/ x = groupI * 4 + 3
       THEN 1 ELSE 0]

\* the mix loop of Run: FillWithSilence, then AddChannelFrom(*output, j % 2,
\* i, factor) with factor = m_ScaleFactors[i * m_OutputCount + j] for every
\* output j / 2; every group plays the signal input[frame][side]
RECURSIVE MixItem(_, _, _, _, _)
MixItem(task, input, frame, i, j) ==
  IF j = task.m_OutputCount THEN 0
  ELSE task.m_ScaleFactors[i * task.m_OutputCount + j] * input[frame][j % 2]
         + MixItem(task, input, frame, i, j + 1)
Mixed(task, input) ==
  [x \in 0 .. (NFrames * task.nChannels - 1) |->
     MixItem(task, input, x \div task.nChannels, x % task.nChannels, 0)]

\* one round of the clamp and meter loop of Run, for the item itemI; an
\* access through pMeterInfo behind the end of m_MeterInfo hits the item
\* oobItem of the buffer, or other memory that holds the value beyond
ClampItem(st, nChannels, itemI, oobItem, beyond) ==
  LET f == Clamp(st.data[itemI])
      absF == Abs(f)
      data == [st.data EXCEPT ![itemI] = f]
      inside == st.pMeterInfo < nChannels
      aliased == ~inside /\ oobItem \in DOMAIN data
      old == IF inside THEN st.meter[st.pMeterInfo]
             ELSE IF aliased THEN data[oobItem] ELSE beyond
      channelI == st.channelI + 1
      wrap == channelI >= nChannels
  IN [data |-> IF aliased /\ absF > old THEN [data EXCEPT ![oobItem] = absF] ELSE data,
      meter |-> IF inside /\ absF > old
                  THEN [st.meter EXCEPT ![st.pMeterInfo] = absF] ELSE st.meter,
      overrun |-> st.overrun \/ ~inside,
      misplaced |-> st.misplaced \/ st.pMeterInfo # itemI % nChannels,
      clamped |-> st.clamped \/ f # st.data[itemI],
      channelI |-> IF wrap THEN 0 ELSE channelI,
      pMeterInfo |-> (IF wrap THEN 0 ELSE st.pMeterInfo) + 1]

RECURSIVE ClampFrom(_, _, _, _, _)
ClampFrom(st, nChannels, itemI, oobItem, beyond) ==
  IF itemI = NFrames * nChannels THEN st
  ELSE ClampFrom(ClampItem(st, nChannels, itemI, oobItem, beyond),
                 nChannels, itemI + 1, oobItem, beyond)

\* max |s| over the clamped samples of channel c of the buffer data
RECURSIVE ChannelPeak(_, _, _, _)
ChannelPeak(data, nChannels, c, frame) ==
  IF frame = NFrames THEN 0
  ELSE LET a == Abs(Clamp(data[frame * nChannels + c]))
           rest == ChannelPeak(data, nChannels, c, frame + 1)
       IN IF a > rest THEN a ELSE rest

outOther == <<soundVars, lifeVars, engVars, voiceVars, sampVars, resVars, extVars>>
taskRest ==
  <<m_Stop, m_Mutex, tpc, tlocal, shouldStop, buffer, generation, completions,
    lastReset, abandons, callsLeft>>

\* the output task as its constructor and SetOutputs leave it
OutputTaskBuilt(nChannels, scaleFactors, nOutputs, isDownmix) ==
  /\ ~outTask.built
  /\ outTask' =
       [built |-> TRUE, nChannels |-> nChannels, m_OutputCount |-> nOutputs * 2,
        m_ScaleFactors |-> scaleFactors, isDownmix |-> isDownmix]
  /\ outData' = [x \in 0 .. (NFrames * nChannels - 1) |-> 0]
  /\ m_MeterInfo' = [c \in 0 .. (nChannels - 1) |-> 0]
  /\ outPeak' = [c \in 0 .. (nChannels - 1) |-> 0]
  /\ UNCHANGED <<outOther, taskVars, outInfo>>

\* [B2] of BuildEngine: the output task of a device
BuildDeviceOutput(nAudioGroups, nChannels, dB) ==
  OutputTaskBuilt(nChannels, DeviceScaleFactors(nAudioGroups, nChannels, dB),
                  nAudioGroups, FALSE)

\* [B3] of BuildEngine: the downmix task
BuildDownmix(nAudioGroups) ==
  OutputTaskBuilt(2, DownmixScaleFactors(nAudioGroups), nAudioGroups, TRUE)

\* void GOSoundOutputTask::Run(GOSoundThread *pThread), by one thread that is
\* not asked to stop; the reverb is not configured; oobItem is what lies
\* behind the end of m_MeterInfo: other memory that holds 0 (-2) or 1.0f (-1),
\* or an item of the buffer
OutputRun(input, oobItem) ==
  LET mixed == Mixed(outTask, input)
      beyond == IF oobItem = -2 THEN 0 ELSE FloatOne
      st == ClampFrom([data |-> mixed, meter |-> m_MeterInfo, overrun |-> FALSE,
                       misplaced |-> FALSE, clamped |-> FALSE, channelI |-> 0,
                       pMeterInfo |-> 0],
                      outTask.nChannels, 0, oobItem, beyond)
  IN /\ outTask.built
     /\ ~m_Done
     /\ outInfo.runsLeft > 0
     /\ outData' = st.data
     /\ m_MeterInfo' = st.meter
     /\ outPeak' =
          [c \in DOMAIN outPeak |->
             LET p == ChannelPeak(mixed, outTask.nChannels, c, 0)
             IN IF p > outPeak[c] THEN p ELSE outPeak[c]]
     /\ outInfo' = [runsLeft |-> outInfo.runsLeft - 1, clamped |-> st.clamped,
                    overrun |-> st.overrun, misplaced |-> st.misplaced]
     /\ m_Done' = TRUE
     /\ UNCHANGED <<outOther, taskRest, outTask>>

\* void GOSoundOutputTask::Reset()
OutputReset ==
  /\ m_Done
  /\ m_Done' = FALSE
  /\ UNCHANGED <<outOther, taskRest, outVars>>

\* void GOSoundOutputTask::ResetMeterInfo()
ResetMeterInfo ==
  /\ outTask.built
  /\ \E c \in DOMAIN m_MeterInfo : m_MeterInfo[c] # 0 \/ outPeak[c] # 0
  /\ m_MeterInfo' = [c \in DOMAIN m_MeterInfo |-> 0]
  /\ outPeak' = [c \in DOMAIN outPeak |-> 0]
  /\ UNCHANGED <<outOther, taskVars, outTask, outData, outInfo>>

InitOutput ==
  /\ SoundSystemClosed
  /\ m_LifecycleState = IDLE
  /\ m_CurrentTime = 1
  /\ periods = 0
  /\ assertFailed = FALSE
  /\ engOp = "none"
  /\ engPrev = IDLE
  /\ engServed = "none"
  /\ engOpsLeft = 0
  /\ TaskUntouched(0)
  /\ VoicesUntouched(0)
  /\ SamplersUntouched(0)
  /\ engine = NoEngine(FALSE)
  /\ OutputUntouched(MaxRuns)
  /\ ExtUntouched

NextOutput ==
  \/ \E nAudioGroups \in 1 .. MaxGroups, nChannels \in 1 .. 2, dB \in DbValues :
       BuildDeviceOutput(nAudioGroups, nChannels, dB)
  \/ \E nAudioGroups \in 1 .. MaxGroups : BuildDownmix(nAudioGroups)
  \/ \E input \in [0 .. (NFrames - 1) -> [0 .. 1 -> Samples]],
        oobItem \in -2 .. (NFrames * 2 - 1) :
       OutputRun(input, oobItem)
  \/ OutputReset
  \/ ResetMeterInfo

SpecOutput == InitOutput /\ [][NextOutput]_vars

\* C18: after every completed Run of an output task every sample s of its
\* buffer satisfies -1 <= s <= 1.
C18_OutputClamped ==
  m_Done => \A x \in DOMAIN outData : CLAMP_MIN <= outData[x] /\ outData[x] <= CLAMP_MAX

\* a Run that found a sample outside the range and has clamped it
C18_Witness ==
  /\ m_Done
  /\ outInfo.clamped
  /\ \E x \in DOMAIN outData : outData[x] = CLAMP_MIN

\* C19: for every channel c the meter of the task equals the maximum of |s|
\* over the clamped samples written to channel c since the last
\* ResetMeterInfo.
C19_MeterIsChannelPeak ==
  outTask.built => \A c \in DOMAIN m_MeterInfo : m_MeterInfo[c] = outPeak[c]

\* C28: in the clamp and meter loop of Run, for every number of channels
\* and of frames, the entry of the meter that is read and written for the
\* item itemI of the buffer is m_MeterInfo[itemI mod nChannels]; the pointer
\* into the meter never addresses an index outside [0, nChannels).
C28_MeterIndexIsChannel ==
  ~outInfo.misplaced /\ ~outInfo.overrun

\* C20: for every number n of audio groups the factors of the downmix task
\* are the unity map under the index channel * (2 n) + j of Run: 1 for
\* (channel 0, left of group i) and (channel 1, right of group i), else 0.
C20_DownmixIsUnityMap ==
  (outTask.built /\ outTask.isDownmix) =>
    \A channel \in 0 .. 1, j \in 0 .. (outTask.m_OutputCount - 1) :
      outTask.m_ScaleFactors[channel * outTask.m_OutputCount + j]
        = IF j % 2 = channel THEN 1 ELSE 0

(***************************************************************************)
(* GOSoundSystem: opening and closing the devices, every call of the       *)
(* control thread as a whole (specification SpecOpen)                      *)
(***************************************************************************)

\* the calls of the control thread
MaxOpenOps == 3
\* #define MAX_FRAME_SIZE (2048)
MAX_FRAME_SIZE == 2048

\* what the devices do while they are opened: all goes well, or device `at`
\* is not found, or its Open or its StartStream throws
Faults ==
  {[kind |-> "none", at |-> 0]} \cup [kind : {"create", "open", "start"}, at : Devices]
\* m_config.SamplesPerBuffer()
BufferSizes == {NSamples, MAX_FRAME_SIZE, MAX_FRAME_SIZE + 1}

\* the port objects and the exception when the try block of OpenSoundSystem
\* is left: the ports are created and initialised in index order, then all
\* are opened, then the size of the buffer is checked, then all are started
OpenTry(n, fault, samplesPerBuffer) ==
  LET hit(kind) == fault.kind = kind /\ fault.at < n
      upTo(before, at, after) ==
        [d \in Devices |-> IF d >= n THEN "null"
                           ELSE IF d < fault.at THEN before
                           ELSE IF d = fault.at THEN at ELSE after]
      all(state) == [d \in Devices |-> IF d < n THEN state ELSE "null"]
  IN IF hit("create")
       THEN [ports |-> upTo("inited", "null", "null"), thrown |-> "notFound"]
     ELSE IF hit("open")
       THEN [ports |-> upTo("open", "halfOpen", "inited"), thrown |-> "openFailed"]
     ELSE IF samplesPerBuffer > MAX_FRAME_SIZE
       THEN [ports |-> all("open"), thrown |-> "tooLarge"]
     ELSE IF hit("start")
       THEN [ports |-> upTo("started", "open", "open"), thrown |-> "startFailed"]
     ELSE [ports |-> all("started"), thrown |-> NoMessage]

\* a close that stops the streams that run and leaves the other ports
ClosePortsStarted(ports) ==
  [d \in Devices |-> IF ports[d] = "started" THEN "closed" ELSE ports[d]]
\* CloseSoundSystem: if (m_AudioOutputs[i].port) { port->Close(); delete port; }
ClosePortsCreated(ports) ==
  [d \in Devices |-> IF ports[d] # "null" THEN "closed" ELSE "null"]

\* the outputs after StartSoundSystem: wait = false; waiting = true;
EnabledOutputs == [d \in Devices |-> [port |-> d \in Devs, wait |-> FALSE, waiting |-> d \in Devs]]

openOther ==
  <<nDev, relock, m_NCallbacksEntered, m_CalcCount, m_WaitCount, devMutex, devSignaled,
    m_CallbackMutex, ctlSignaled, cb, ctl, opsLeft, cbLeft, ahead, meterOrder,
    m_CurrentTime, periods, engVars, taskVars, voiceVars, sampVars, resVars, outVars,
    jack, shut, auxVars>>

\* bool AssureSoundIsOpen(): if (!m_open) OpenSoundSystem(); if (m_open &&
\* m_OrganController) { BuildAndStartEngine(); StartSoundSystem(); ... }
\* return m_open;
OpenAssureSoundIsOpen(fault, samplesPerBuffer) ==
  LET tried == OpenTry(nDev, fault, samplesPerBuffer)
      failed == ~m_open /\ tried.thrown # NoMessage
      isOpen == m_open \/ ~failed
      starts == isOpen /\ m_OrganController # NoOrgan
      asserts == starts /\ ~BuildEngineOk(m_LifecycleState)
      started == starts /\ ~asserts
  IN /\ ~assertFailed
     /\ openSys.opsLeft > 0
     /\ m_open' = isOpen
     /\ assertFailed' = asserts
     /\ m_LifecycleState' = IF started
                            THEN StartEngineState(BuildEngineState(m_LifecycleState))
                            ELSE m_LifecycleState
     /\ m_IsRunning' = (started \/ m_IsRunning)
     /\ m_AudioOutputs' = IF ~isOpen THEN NoOutputs
                          ELSE IF started THEN EnabledOutputs
                          ELSE IF m_open THEN m_AudioOutputs ELSE OpenOutputs
     /\ openSys' =
          IF m_open
          THEN [openSys EXCEPT !.thrown = NoMessage, !.shown = NoMessage,
                               !.lastOp = "AssureSoundIsOpen", !.returned = isOpen,
                               !.opsLeft = @ - 1]
          ELSE [openSys EXCEPT
                  !.ports = IF failed THEN ClosePortsCreated(tried.ports) ELSE tried.ports,
                  !.created = {d \in Devices : tried.ports[d] # "null"},
                  !.m_LastErrorMessage = IF failed /\ ~openSys.logSoundErrors
                                         THEN tried.thrown ELSE NoMessage,
                  !.shown = IF failed /\ openSys.logSoundErrors
                            THEN tried.thrown ELSE NoMessage,
                  !.thrown = tried.thrown,
                  !.lastOp = "AssureSoundIsOpen", !.returned = isOpen,
                  !.opsLeft = @ - 1]
     /\ UNCHANGED <<openOther, m_OrganController>>

\* void AssureSoundIsClosed(): if (m_open) { if (m_OrganController) { ...
\* StopSoundSystem(); StopAndDestroyEngine(); } CloseSoundSystem(); }
OpenAssureSoundIsClosed ==
  LET stops == m_open /\ m_OrganController # NoOrgan
      asserts == stops /\ ~StopEngineOk(m_LifecycleState)
  IN /\ ~assertFailed
     /\ openSys.opsLeft > 0
     /\ assertFailed' = asserts
     /\ m_IsRunning' = (m_IsRunning /\ ~stops)
     /\ m_LifecycleState' = IF stops /\ ~asserts
                            THEN DestroyEngineState(StopEngineState(m_LifecycleState))
                            ELSE m_LifecycleState
     /\ m_open' = (m_open /\ asserts)
     /\ m_AudioOutputs' = IF m_open /\ ~asserts THEN NoOutputs ELSE m_AudioOutputs
     /\ openSys' = [openSys EXCEPT
                      !.ports = IF m_open /\ ~asserts THEN ClosePortsCreated(@) ELSE @,
                      !.thrown = NoMessage, !.shown = NoMessage,
                      !.lastOp = "AssureSoundIsClosed", !.opsLeft = @ - 1]
     /\ UNCHANGED <<openOther, m_OrganController>>

\* void AssignOrganFile(GOOrganController *pNewOrganController)
OpenAssignOrganFile(pNewOrganController) ==
  LET stops == m_open /\ m_OrganController # NoOrgan
      stopAsserts == stops /\ ~StopEngineOk(m_LifecycleState)
      stopped == IF stops /\ ~stopAsserts
                 THEN DestroyEngineState(StopEngineState(m_LifecycleState))
                 ELSE m_LifecycleState
      starts == ~stopAsserts /\ m_open /\ pNewOrganController # NoOrgan
      startAsserts == starts /\ ~BuildEngineOk(stopped)
      started == starts /\ ~startAsserts
  IN /\ ~assertFailed
     /\ openSys.opsLeft > 0
     /\ pNewOrganController # m_OrganController
     /\ assertFailed' = (stopAsserts \/ startAsserts)
     /\ m_OrganController' = IF stopAsserts THEN m_OrganController ELSE pNewOrganController
     /\ m_IsRunning' = ((m_IsRunning /\ ~stops) \/ started)
     /\ m_LifecycleState' = IF started
                            THEN StartEngineState(BuildEngineState(stopped))
                            ELSE stopped
     /\ m_AudioOutputs' = IF started THEN EnabledOutputs
                          ELSE IF stops THEN OpenOutputs ELSE m_AudioOutputs
     /\ openSys' = [openSys EXCEPT !.thrown = NoMessage, !.shown = NoMessage,
                                   !.lastOp = "AssignOrganFile", !.opsLeft = @ - 1]
     /\ UNCHANGED <<openOther, m_open>>

\* void SetLogSoundErrorMessages(bool isVisible) { logSoundErrors = isVisible; }
SetLogSoundErrorMessages(isVisible) ==
  /\ ~assertFailed
  /\ openSys.logSoundErrors # isVisible
  /\ openSys' = [openSys EXCEPT !.logSoundErrors = isVisible,
                                !.lastOp = "SetLogSoundErrorMessages"]
  /\ UNCHANGED <<openOther, m_open, m_OrganController, m_IsRunning, m_AudioOutputs,
                 m_LifecycleState, assertFailed>>

InitOpen ==
  /\ nDev \in 1 .. MaxDevices
  /\ relock = "blocks"
  /\ m_open = FALSE
  /\ m_OrganController \in {NoOrgan, LoadedOrgan}
  /\ m_IsRunning = FALSE
  /\ m_NCallbacksEntered = 0
  /\ m_CalcCount = 0
  /\ m_WaitCount = 0
  /\ m_AudioOutputs = NoOutputs
  /\ devMutex = [d \in Devices |-> NoOwner]
  /\ devSignaled = [d \in Devices |-> FALSE]
  /\ m_CallbackMutex = NoOwner
  /\ ctlSignaled = FALSE
  /\ cb = [d \in Devices |-> IdleCb]
  /\ ctl = IdleCtl
  /\ assertFailed = FALSE
  /\ opsLeft = 0
  /\ cbLeft = [d \in Devices |-> 0]
  /\ m_LifecycleState = IDLE
  /\ m_CurrentTime = 1
  /\ periods = 0
  /\ ahead = [d \in Devices |-> 0]
  /\ meterOrder = <<>>
  /\ engOp = "none"
  /\ engPrev = IDLE
  /\ engServed = "none"
  /\ engOpsLeft = 0
  /\ TaskUntouched(0)
  /\ VoicesUntouched(0)
  /\ SamplersUntouched(0)
  /\ engine = NoEngine(FALSE)
  /\ OutputUntouched(0)
  /\ openSys = NeverOpened(MaxOpenOps)
  /\ jack = JackPortInited(0, 0, 0, 0)
  /\ shut = NoThreads(FALSE, 0, 0)
  /\ AuxUntouched

NextOpen ==
  \/ \E fault \in Faults, samplesPerBuffer \in BufferSizes :
       OpenAssureSoundIsOpen(fault, samplesPerBuffer)
  \/ OpenAssureSoundIsClosed
  \/ \E o \in {NoOrgan} \cup Organs : OpenAssignOrganFile(o)
  \/ \E isVisible \in BOOLEAN : SetLogSoundErrorMessages(isVisible)

SpecOpen == InitOpen /\ [][NextOpen]_vars

\* C23: when OpenSoundSystem fails (a device is not found, Open or
\* StartStream of a port throws, or the samples per buffer exceed
\* MAX_FRAME_SIZE) the sound system is closed again: m_open is false, every
\* port that was created is closed and deleted, the list of outputs is empty,
\* the message is the last error message when message boxes are disabled,
\* and AssureSoundIsOpen returns false with the engine not built and
\* m_IsRunning not set.
C23_FailedOpenIsClosed ==
  (openSys.lastOp = "AssureSoundIsOpen" /\ openSys.thrown # NoMessage) =>
    /\ ~m_open
    /\ ~openSys.returned
    /\ \A d \in Devices :
         openSys.ports[d] = IF d \in openSys.created THEN "closed" ELSE "null"
    /\ m_AudioOutputs = NoOutputs
    /\ ~openSys.logSoundErrors => openSys.m_LastErrorMessage = openSys.thrown
    /\ openSys.logSoundErrors => openSys.shown = openSys.thrown
    /\ m_LifecycleState = IDLE
    /\ ~m_IsRunning
    /\ ~assertFailed

\* with an organ loaded and message boxes disabled, the second device is not
\* found after the first port was created
C23_Witness ==
  /\ openSys.lastOp = "AssureSoundIsOpen"
  /\ openSys.thrown = "notFound"
  /\ openSys.created = {0}
  /\ nDev > 1
  /\ m_OrganController # NoOrgan
  /\ ~openSys.logSoundErrors
  /\ openSys.m_LastErrorMessage = "notFound"

(***************************************************************************)
(* GOSoundJackPort: Open, StartStream and Close of one port (specification *)
(* SpecJack)                                                               *)
(***************************************************************************)

\* the calls on the port
MaxJackOps == 3

\* jack_client_open: the client, or null with or without JackServerFailed
JackStatuses == {"ok", "JackServerFailed", "failed"}
SampleRates == {44100, 48000}
JackBufferSizes == {NSamples, 2 * NSamples}
JackChannels == {0, 2}

\* void GOSoundJackPort::Close()
JackClosed(port) ==
  [port EXCEPT !.m_IsStarted = FALSE, !.m_IsOpen = FALSE, !.mp_JackClient = FALSE,
               !.active = FALSE, !.mp_JackOutPorts = 0, !.mp_GoBuffer = FALSE]

\* void GOSoundJackPort::Open(); available: the ports the server still has
JackOpened(port, status, sampleRate, samplesPerBuffer, available) ==
  LET closed == [JackClosed(port) EXCEPT !.serverRate = sampleRate,
                                         !.serverSize = samplesPerBuffer]
      client == [closed EXCEPT !.mp_JackClient = TRUE]
  IN IF status # "ok"
       THEN [closed EXCEPT !.thrown = IF status = "JackServerFailed"
                                      THEN "noServer" ELSE "clientOpenFailed"]
     ELSE IF sampleRate # port.m_SampleRate
       THEN [client EXCEPT !.thrown = "sampleRate"]
     ELSE IF samplesPerBuffer # port.m_SamplesPerBuffer
       THEN [client EXCEPT !.thrown = "samplesPerBuffer"]
     ELSE IF available < port.m_Channels
       THEN [client EXCEPT !.mp_JackOutPorts = available, !.thrown = "noPorts"]
     ELSE [client EXCEPT !.mp_JackOutPorts = port.m_Channels, !.mp_GoBuffer = TRUE,
                         !.m_IsOpen = TRUE, !.thrown = NoMessage]

\* void GOSoundJackPort::StartStream(); activates: jack_activate returns 0.
\* The message of the failed activation is formatted and dropped.
JackStarted(port, activates) ==
  IF ~port.mp_JackClient \/ ~port.m_IsOpen
  THEN [port EXCEPT !.thrown = "notOpen"]
  ELSE [port EXCEPT !.m_IsStarted = TRUE, !.active = activates, !.thrown = NoMessage]

jackOther ==
  <<soundVars, lifeVars, engVars, taskVars, voiceVars, sampVars, resVars, outVars,
    openSys, shut, auxVars>>

JackOpen(status, sampleRate, samplesPerBuffer, available) ==
  /\ jack.opsLeft > 0
  /\ jack' = [JackOpened(jack, status, sampleRate, samplesPerBuffer, available)
                EXCEPT !.lastOp = "Open", !.opsLeft = @ - 1]
  /\ UNCHANGED jackOther

JackStartStream(activates) ==
  /\ jack.opsLeft > 0
  /\ jack' = [JackStarted(jack, activates)
                EXCEPT !.lastOp = "StartStream", !.opsLeft = @ - 1]
  /\ UNCHANGED jackOther

JackClose ==
  /\ jack.opsLeft > 0
  /\ jack' = [JackClosed(jack) EXCEPT !.thrown = NoMessage, !.lastOp = "Close",
                                      !.opsLeft = @ - 1]
  /\ UNCHANGED jackOther

InitJack ==
  /\ SoundSystemClosed
  /\ m_LifecycleState = IDLE
  /\ m_CurrentTime = 1
  /\ periods = 0
  /\ assertFailed = FALSE
  /\ engOp = "none"
  /\ engPrev = IDLE
  /\ engServed = "none"
  /\ engOpsLeft = 0
  /\ TaskUntouched(0)
  /\ VoicesUntouched(0)
  /\ SamplersUntouched(0)
  /\ engine = NoEngine(FALSE)
  /\ OutputUntouched(0)
  /\ openSys = NeverOpened(0)
  /\ shut = NoThreads(FALSE, 0, 0)
  /\ AuxUntouched
  /\ \E channels \in JackChannels, sampleRate \in SampleRates :
       jack = JackPortInited(channels, sampleRate, NSamples, MaxJackOps)

NextJack ==
  \/ \E status \in JackStatuses, sampleRate \in SampleRates,
        samplesPerBuffer \in JackBufferSizes, available \in JackChannels :
       JackOpen(status, sampleRate, samplesPerBuffer, available)
  \/ \E activates \in BOOLEAN : JackStartStream(activates)
  \/ JackClose

SpecJack == InitJack /\ [][NextJack]_vars

\* the server of the last Open runs with another sample rate or buffer size
\* than the port was initialised with
JackMismatch ==
  jack.serverRate # jack.m_SampleRate \/ jack.serverSize # jack.m_SamplesPerBuffer

\* C24: the port rejects a sample rate or a buffer size of the server that
\* differs from its own: the Open that meets it and a StartStream after it
\* raise an error; and a StartStream that did not start the stream, a failed
\* activation included, raises an error and does not leave the port marked
\* as started.
C24_StartFailureIsAnError ==
  /\ (jack.lastOp \in {"Open", "StartStream"} /\ jack.mp_JackClient /\ JackMismatch) =>
       (jack.thrown # NoMessage /\ ~jack.m_IsStarted)
  /\ (jack.lastOp = "StartStream" /\ ~jack.active) =>
       (jack.thrown # NoMessage /\ ~jack.m_IsStarted)

(***************************************************************************)
(* GOSoundSystem: StopSoundSystem under drivers that go on calling         *)
(* AudioCallback (specification SpecStop)                                  *)
(***************************************************************************)

\* the driver of device d calls AudioCallback once more: the drivers call as
\* long as their ports exist. While the sound system runs the calls end when
\* the engine has played MaxPeriods periods.
CbArriveAgain(d, framesOk) ==
  /\ ~assertFailed
  /\ d \in Devs
  /\ cb[d].pc = "idle"
  /\ m_AudioOutputs[d].port
  /\ periods < MaxPeriods \/ ~m_IsRunning
  /\ cb' = [cb EXCEPT ![d] =
       IF Admitted(m_IsRunning, framesOk)
       THEN [IdleCb EXCEPT !.pc = "cb_enter", !.framesOk = framesOk]
       ELSE [Return("silence") EXCEPT !.framesOk = ~m_IsRunning \/ framesOk]]
  /\ UNCHANGED <<engVars, taskVars, voiceVars, restVars, nDev, relock, m_open, m_OrganController, m_IsRunning, m_NCallbacksEntered,
                 m_CalcCount, m_WaitCount, m_AudioOutputs, devMutex, devSignaled,
                 m_CallbackMutex, ctlSignaled, ctl, assertFailed, opsLeft, cbLeft,
                 m_LifecycleState, m_CurrentTime, periods, ahead, meterOrder>>

\* the steps of the callback of device d
StopCallbackStep(d) ==
  \/ \E framesOk \in BOOLEAN : CbArriveAgain(d, framesOk)
  \/ CbEnter(d)
  \/ CbLoad2(d)
  \/ CbLock(d)
  \/ CbGate(d)
  \/ CbWake(d)
  \/ CbCalc(d)
  \/ CbGetAudioOutput(d)
  \/ CbGotAudioOutput(d)
  \/ CbWaitCount(d)
  \/ CbNextPeriod(d)
  \/ CbNextPeriodDone(d)
  \/ CbUpdateMeter(d)
  \/ CbResetCalc(d)
  \/ CbResetWait(d)
  \/ CbRelease(d)
  \/ CbUnlock(d)
  \/ CbExit(d)
  \/ CbLoad3(d)
  \/ CbNotify(d)

\* the steps of AssureSoundIsClosed on the control thread
StopControlStep ==
  \/ AssureSoundIsClosed
  \/ StopStoreRunning
  \/ StopLock
  \/ StopCheck
  \/ StopWake
  \/ StopLockOutputs
  \/ StopDisableOutputs
  \/ StopRelockOutputs
  \/ CtlStopEngine
  \/ CtlDestroyEngine
  \/ CloseSoundSystem

\* the sound system runs with an organ: AssureSoundIsOpen has returned
InitStop ==
  /\ nDev \in 1 .. MaxDevices
  /\ relock \in {"blocks", "proceeds"}
  /\ m_open = TRUE
  /\ m_OrganController = LoadedOrgan
  /\ m_IsRunning = TRUE
  /\ m_NCallbacksEntered = 0
  /\ m_CalcCount = 0
  /\ m_WaitCount = 0
  /\ m_AudioOutputs = EnabledOutputs
  /\ devMutex = [d \in Devices |-> NoOwner]
  /\ devSignaled = [d \in Devices |-> FALSE]
  /\ m_CallbackMutex = NoOwner
  /\ ctlSignaled = FALSE
  /\ cb = [d \in Devices |-> IdleCb]
  /\ ctl = IdleCtl
  /\ assertFailed = FALSE
  /\ opsLeft = 1
  /\ cbLeft = [d \in Devices |-> 0]
  /\ m_LifecycleState = WORKING
  /\ m_CurrentTime = 1
  /\ periods = 0
  /\ ahead = [d \in Devices |-> 0]
  /\ meterOrder = <<>>
  /\ engOp = "none"
  /\ engPrev = IDLE
  /\ engServed = "none"
  /\ engOpsLeft = 0
  /\ TaskUntouched(0)
  /\ VoicesUntouched(0)
  /\ RestUntouched

NextStop ==
  \/ \E d \in Devices : StopCallbackStep(d)
  \/ StopControlStep

\* the control thread and the thread of every driver take a step when they
\* can
SpecStop ==
  /\ InitStop
  /\ [][NextStop]_vars
  /\ WF_vars(StopControlStep)
  /\ \A d \in Devices : WF_vars(StopCallbackStep(d))

\* the control thread is in StopSoundSystem
InStopSoundSystem ==
  ctl.pc \in {"stop_store", "stop_lock", "stop_check", "stop_sleep", "stop_multi",
              "stop_flags", "stop_relock"}

\* C25: StopSoundSystem returns in the end, for any number of devices, as
\* long as every driver goes on calling its callback; also when a callback
\* that was let in sleeps at its gate while m_IsRunning is cleared and the
\* callbacks of the device it waits for no longer join the rendezvous.
C25_StopReturns == InStopSoundSystem ~> StopReturned

\* StopSoundSystem sleeps until no callback is inside, and the callback that
\* is inside sleeps at its gate: no thread will wake the other
StopSleepsForEver ==
  /\ ctl.pc = "stop_sleep"
  /\ ~ctlSignaled
  /\ m_NCallbacksEntered > 0
  /\ \E d \in Devs : Sleeps(d) /\ ~devSignaled[d]
  /\ \A d \in Devs : cb[d].pc \in {"idle", "cb_sleep"} /\ ~devSignaled[d]

\* C26: while it disables the outputs StopSoundSystem never locks a device
\* mutex that the control thread holds already: with all mutexes of the
\* outputs held through the multi-mutex locker, the thread asks for no
\* further lock of m_AudioOutputs[i].mutex, for any number of devices; and
\* the device mutexes that the thread holds at once were taken in increasing
\* index order.
C26_NoLockOfHeldMutex ==
  /\ (ctl.pc = "stop_relock" /\ ctl.i < NOutputs) => devMutex[ctl.i] # Ctl
  /\ \A d, e \in Devs : (d < e /\ devMutex[e] = Ctl) => devMutex[d] = Ctl

\* ======================================================================
\* GOSoundSystem: StopEngine and DestroyEngine against the worker threads
\* ======================================================================
\* The control thread runs StopEngine and DestroyEngine statement by
\* statement while the worker threads pull tasks from the scheduler. A worker
\* thread waits for work, pulls a task when the scheduler gives one, runs it
\* and pulls again; WaitForIdle returns when the thread runs no task, Delete
\* when the thread has left its loop.

MaxShutOps == 6

Step(name, w) == [step |-> name, w |-> w]
\* for (auto &pThread : mp_threads) pThread->name();
ForThreads(name, n) == [w \in 1 .. n |-> Step(name, w)]

\* the order with the store of BUILT before the waits
StopEngineStoresFirst(n) ==
  <<Step("PauseGivingWork", 0), Step("storeBUILT", 0)>> \o ForThreads("WaitForIdle", n)

\* void StopEngine(): m_Scheduler.PauseGivingWork(); for (auto &pThread :
\* mp_threads) pThread->WaitForIdle(); m_LifecycleState.store(BUILT);
StopEngineSteps(n) ==
  <<Step("PauseGivingWork", 0)>> \o ForThreads("WaitForIdle", n)
    \o <<Step("storeBUILT", 0)>>

\* void DestroyEngine(): the threads are deleted and mp_threads cleared, the
\* scheduler is cleared, then the tasks go: mp_WindchestTasks.clear();
\* mp_TremulantTasks.clear(); mp_DownmixTask.reset(); mp_AudioOutputTasks
\* .clear(); WaitAndClear of every group task and mp_AudioGroupTasks.clear();
\* m_LifecycleState.store(IDLE);
DestroyEngineSteps(n) ==
  ForThreads("Delete", n)
    \o <<Step("Scheduler.Clear", 0), Step("windchest", 0), Step("tremulant", 0),
         Step("downmix", 0), Step("output", 0), Step("group", 0),
         Step("storeIDLE", 0)>>

shutOther ==
  <<soundVars, m_CurrentTime, periods, assertFailed, engVars, taskVars, voiceVars,
    sampVars, resVars, outVars, openSys, jack, auxVars>>

Idle(w) == shut.running[w] = NoTask

\* BuildEngine: the tasks are created and added to the scheduler, the worker
\* threads are created and run, m_LifecycleState.store(BUILT)
ShutBuildEngine(n) ==
  /\ shut.prog = <<>>
  /\ shut.opsLeft > 0
  /\ m_LifecycleState = IDLE
  /\ shut' = [shut EXCEPT !.op = "BuildEngine", !.nThreads = n, !.threads = 1 .. n,
                          !.sched = TaskKinds, !.alive = TaskKinds, !.done = {},
                          !.busyAtPause = FALSE, !.opsLeft = @ - 1]
  /\ m_LifecycleState' = BUILT
  /\ UNCHANGED shutOther

\* StartEngine: ResetCounters(); m_Scheduler.ResumeGivingWork();
\* m_LifecycleState.store(WORKING)
ShutStartEngine ==
  /\ shut.prog = <<>>
  /\ shut.opsLeft > 0
  /\ m_LifecycleState = BUILT
  /\ shut' = [shut EXCEPT !.op = "StartEngine", !.givingWork = TRUE,
                          !.opsLeft = @ - 1]
  /\ m_LifecycleState' = WORKING
  /\ UNCHANGED shutOther

\* the control thread calls StopEngine, with the engine WORKING
ShutCallStopEngine ==
  /\ shut.prog = <<>>
  /\ shut.opsLeft > 0
  /\ m_LifecycleState = WORKING
  /\ shut' = [shut EXCEPT !.op = "StopEngine", !.prog = StopEngineSteps(shut.nThreads),
                          !.opsLeft = @ - 1]
  /\ UNCHANGED <<m_LifecycleState, shutOther>>

\* the control thread calls DestroyEngine, with the engine BUILT
ShutCallDestroyEngine ==
  /\ shut.prog = <<>>
  /\ shut.opsLeft > 0
  /\ m_LifecycleState = BUILT
  /\ shut' = [shut EXCEPT !.op = "DestroyEngine",
                          !.prog = DestroyEngineSteps(shut.nThreads),
                          !.opsLeft = @ - 1]
  /\ UNCHANGED <<m_LifecycleState, shutOther>>

\* the next statement of the operation the control thread is in
ShutStep ==
  /\ shut.prog # <<>>
  /\ LET s == Head(shut.prog)
         rest == [shut EXCEPT !.prog = Tail(@)]
     IN CASE s.step = "PauseGivingWork" ->
               /\ shut' = [rest EXCEPT !.givingWork = FALSE,
                                       !.busyAtPause = \E w \in shut.threads : ~Idle(w)]
               /\ UNCHANGED m_LifecycleState
          [] s.step = "WaitForIdle" ->
               /\ Idle(s.w)
               /\ shut' = rest
               /\ UNCHANGED m_LifecycleState
          [] s.step = "storeBUILT" ->
               /\ shut' = rest
               /\ m_LifecycleState' = BUILT
          [] s.step = "Delete" ->
               /\ Idle(s.w)
               /\ shut' = [rest EXCEPT !.threads = @ \ {s.w}]
               /\ UNCHANGED m_LifecycleState
          [] s.step = "Scheduler.Clear" ->
               /\ shut' = [rest EXCEPT !.sched = {}, !.done = {}]
               /\ UNCHANGED m_LifecycleState
          [] s.step \in TaskKinds ->
               /\ shut' = [rest EXCEPT !.alive = @ \ {s.step}]
               /\ UNCHANGED m_LifecycleState
          [] s.step = "storeIDLE" ->
               /\ shut' = rest
               /\ m_LifecycleState' = IDLE
  /\ UNCHANGED shutOther

\* a worker thread pulls a task: the scheduler gives one that is not done in
\* this period, unless the giving of work is paused
WorkerPull(w, task) ==
  /\ w \in shut.threads
  /\ Idle(w)
  /\ shut.givingWork
  /\ task \in shut.sched \ shut.done
  /\ shut' = [shut EXCEPT !.running[w] = task]
  /\ UNCHANGED <<m_LifecycleState, shutOther>>

\* the worker thread has run its task to the end
WorkerFinish(w) ==
  /\ ~Idle(w)
  /\ shut' = [shut EXCEPT !.running[w] = NoTask, !.done = @ \cup {shut.running[w]}]
  /\ UNCHANGED <<m_LifecycleState, shutOther>>

\* the audio thread ends a period of the running engine: the scheduler is
\* reset and every task is to be done again
ShutNextPeriod ==
  /\ shut.prog = <<>>
  /\ m_LifecycleState = WORKING
  /\ shut.periodsLeft > 0
  /\ shut.done # {}
  /\ shut' = [shut EXCEPT !.done = {}, !.periodsLeft = @ - 1]
  /\ UNCHANGED <<m_LifecycleState, shutOther>>

InitShutdown ==
  /\ SoundSystemClosed
  /\ m_LifecycleState = IDLE
  /\ m_CurrentTime = 1
  /\ periods = 0
  /\ assertFailed = FALSE
  /\ engOp = "none"
  /\ engPrev = IDLE
  /\ engServed = "none"
  /\ engOpsLeft = 0
  /\ TaskUntouched(0)
  /\ VoicesUntouched(0)
  /\ SamplersUntouched(0)
  /\ engine = NoEngine(FALSE)
  /\ OutputUntouched(0)
  /\ openSys = NeverOpened(0)
  /\ jack = JackPortInited(0, 0, 0, 0)
  /\ AuxUntouched
  /\ \E givingWork \in BOOLEAN : shut = NoThreads(givingWork, MaxShutOps, MaxPeriods)

NextShutdown ==
  \/ \E n \in 0 .. MaxWorkers : ShutBuildEngine(n)
  \/ ShutStartEngine
  \/ ShutCallStopEngine
  \/ ShutCallDestroyEngine
  \/ ShutStep
  \/ \E w \in Workers, task \in TaskKinds : WorkerPull(w, task)
  \/ \E w \in Workers : WorkerFinish(w)
  \/ ShutNextPeriod

SpecShutdown == InitShutdown /\ [][NextShutdown]_vars

\* C30: once StopEngine has stored BUILT the scheduler gives no work and no
\* worker thread runs a task; a worker thread runs only a task that exists,
\* and only while the thread itself exists; and from the moment DestroyEngine
\* has cleared the scheduler or destroyed a task no worker thread is left.
C30_ThreadsGoBeforeTasks ==
  /\ (shut.op = "StopEngine" /\ m_LifecycleState = BUILT) =>
       (~shut.givingWork /\ \A w \in Workers : Idle(w))
  /\ \A w \in Workers : ~Idle(w) => (w \in shut.threads /\ shut.running[w] \in shut.alive)
  /\ shut.sched \subseteq shut.alive
  /\ (shut.op = "DestroyEngine" /\ (shut.sched = {} \/ shut.alive # TaskKinds)) =>
       shut.threads = {}

\* DestroyEngine has returned for an engine whose StopEngine paused the
\* scheduler while a worker thread was running a task
C30_Witness ==
  /\ shut.op = "DestroyEngine"
  /\ shut.prog = <<>>
  /\ m_LifecycleState = IDLE
  /\ shut.busyAtPause
  /\ shut.nThreads = MaxWorkers
  /\ shut.alive = {}

\* ======================================================================
\* GOSoundOrganEngine: the passes over the voices and what they leave
\* (SpecRelease): the steps of SpecSampler, with the history of the last
\* pass kept
\* ======================================================================

InitRelease ==
  /\ SoundSystemClosed
  /\ m_LifecycleState = WORKING
  /\ m_CurrentTime = 1
  /\ periods = 0
  /\ assertFailed = FALSE
  /\ engOp = "none"
  /\ engPrev = IDLE
  /\ engServed = "none"
  /\ engOpsLeft = 0
  /\ TaskUntouched(0)
  /\ VoicesUntouched(0)
  /\ SamplersFresh(MaxVoiceOps, TRUE)
  /\ engine = NoEngine(FALSE)
  /\ OutputUntouched(0)
  /\ ExtUntouched

NextRelease ==
  \/ \E provider \in PipeProviders, windchestN \in 1 .. MaxWindchests,
        audioGroup \in AudioGroups, delay_samples \in Delays :
       VoiceStartPipeSample(provider, windchestN, audioGroup, delay_samples,
                            FALSE, TRUE)
  \/ \E provider \in TremulantProviders, tremulantN \in Tremulants :
       VoiceStartTremulantSample(provider, tremulantN, TRUE)
  \/ \E task \in VoiceTasks : DrainAdds(task)
  \/ \E task \in VoiceTasks, sampler \in Samplers, readBlock \in BOOLEAN,
        isSilent \in BOOLEAN, drop_counter \in DropCounters :
       VoiceProcessSampler(task, sampler, readBlock, isSilent, drop_counter)
  \/ \E sampler \in Samplers, hasSection \in BOOLEAN, vol \in BOOLEAN :
       ProcessRelease(sampler, hasSection, vol)
  \/ \E handle \in issued : StopSample(handle)
  \/ \E handle \in issued : SwitchSample(handle)
  \/ VoiceNextPeriod

SpecRelease == InitRelease /\ [][NextRelease]_vars

\* the queue of the release task is empty
ReleaseQueueEmpty == \A s \in Samplers : samplerState.release[s] = 0

\* C31: a voice that a pass has seen due and silent is back in the pool when
\* the next period begins (with the queue of the release task drained), also
\* when a stop or an attack switch was due for it in that pass.
C31_SilentVoiceReturned ==
  [][(VoiceNextPeriod /\ ReleaseQueueEmpty) =>
       \A s \in Samplers : ~samplerState.seenSilent[s]]_vars

\* C32: a voice whose start time lies after the current time is skipped by
\* ProcessSampler: nothing is added to the output, the stream and the fader
\* are left alone, the voice is not handed to the release task whatever its
\* stop and attack switch times are, and it stays in the list of its task
\* unless it has no provider, in which case it goes back to the pool; a voice
\* emits samples in a pass exactly when its start time is not after the
\* current time.
C32_NotDueIsSkipped ==
  lastPass.op = "ProcessSampler" =>
    /\ lastPass.emitted <=> lastPass.before.time <= lastPass.now
    /\ lastPass.before.time > lastPass.now =>
         /\ ~lastPass.advanced
         /\ ~lastPass.accelerated
         /\ ~lastPass.toRelease
         /\ lastPass.after = lastPass.before
         /\ lastPass.returned <=> lastPass.before.p_SoundProvider = NoProvider
         /\ lastPass.kept <=> lastPass.before.p_SoundProvider # NoProvider
         /\ lastPass.usedAfter =
              lastPass.used - (IF lastPass.returned THEN 1 ELSE 0)

\* a pass over a voice that is not due while its stop time has come and its
\* fader is silent
C32_Witness ==
  /\ lastPass.op = "ProcessSampler"
  /\ lastPass.before.time > lastPass.now
  /\ lastPass.before.stop # 0
  /\ lastPass.before.stop <= lastPass.now
  /\ lastPass.silent
  /\ lastPass.kept

\* the attack switch of the last ProcessRelease had a voice, a section and a
\* slot to go on
SwitchPossible ==
  /\ lastPass.before.p_SoundProvider # NoProvider
  /\ ~lastPass.before.is_release
  /\ lastPass.hasSection
  /\ lastPass.poolFree

\* C34: an attack switch processed for a voice that is no release voice, has
\* a provider, a section and a free slot of the pool acquires exactly one
\* voice, a copy of the original marked is_release that fades to zero over
\* the attack switch crossfade, while the original plays on, not a release,
\* from current time + 1; in every other case no voice is acquired and the
\* voice stays as it was; in every case new_attack is cleared and the voice
\* is passed back to its task exactly once.
C34_AttackSwitch ==
  (lastPass.op = "ProcessRelease" /\ lastPass.branch = "new_attack") =>
    /\ lastPass.after.new_attack = 0
    /\ lastPass.passed = 1
    /\ lastPass.passedOther = 0
    /\ IF SwitchPossible
         THEN /\ lastPass.usedAfter = lastPass.used + 1
              /\ lastPass.spawned # NullSampler
              /\ lastPass.spawnedVoice =
                   [lastPass.before EXCEPT
                      !.is_release = TRUE, !.time = lastPass.now,
                      !.decaying = TRUE,
                      !.decay = MsToSamples(PipeProvider.attackSwitchCrossfade),
                      !.stop = 0, !.new_attack = 0]
              /\ lastPass.spawnedTo = TaskKeyOf(lastPass.before)
              /\ lastPass.after =
                   [lastPass.before EXCEPT
                      !.is_release = FALSE, !.time = lastPass.now + 1,
                      !.fadeIn = MsToSamples(PipeProvider.attackSwitchCrossfade),
                      !.decaying = FALSE, !.decay = 0, !.new_attack = 0]
         ELSE /\ lastPass.usedAfter = lastPass.used
              /\ lastPass.spawned = NullSampler
              /\ lastPass.after = [lastPass.before EXCEPT !.new_attack = 0]

\* an attack switch that acquired a voice
C34_Witness ==
  /\ lastPass.op = "ProcessRelease"
  /\ lastPass.branch = "new_attack"
  /\ SwitchPossible
  /\ lastPass.spawned # NullSampler
  /\ lastPass.after.time = lastPass.now + 1

\* C35: the release voice of a voice of a windchest task (task id >= 0) has
\* task id 0, the detached release windchest, and the audio group of the
\* original, and is added to the task of that group; the release voice of a
\* tremulant voice (task id < 0) keeps the task id and is added to tremulant
\* task -id - 1.
C35_ReleaseTask ==
  (lastPass.op = "ProcessRelease" /\ lastPass.branch = "stop"
     /\ lastPass.spawned # NullSampler) =>
    IF lastPass.before.m_SamplerTaskId >= 0
      THEN /\ lastPass.spawnedVoice.m_SamplerTaskId = 0
           /\ lastPass.spawnedVoice.m_AudioGroupId = lastPass.before.m_AudioGroupId
           /\ lastPass.spawnedTo = GroupKey(lastPass.before.m_AudioGroupId)
      ELSE /\ lastPass.spawnedVoice.m_SamplerTaskId = lastPass.before.m_SamplerTaskId
           /\ lastPass.spawnedTo =
                TremulantKey((0 - lastPass.before.m_SamplerTaskId) - 1)

\* the release voice of a pipe on windchest 1 in the last audio group
C35_Witness ==
  /\ lastPass.op = "ProcessRelease"
  /\ lastPass.branch = "stop"
  /\ lastPass.spawned # NullSampler
  /\ lastPass.before.m_SamplerTaskId = 1
  /\ lastPass.before.m_AudioGroupId = MaxGroups - 1
  /\ lastPass.spawnedVoice.is_release

\* C36: a stop processed for a voice with a provider always starts the fade
\* out of the voice and marks it is_release, over the crossfade of the
\* release section when there is one and over the attack switch crossfade of
\* the provider when there is none, whether or not a release voice is
\* spawned; none is spawned without a section, with a windchest volume of
\* zero or with the pool exhausted; the release voice fades in over the same
\* crossfade.
C36_StopFadesOut ==
  (lastPass.op = "ProcessRelease" /\ lastPass.branch = "stop"
     /\ lastPass.before.p_SoundProvider # NoProvider) =>
    /\ lastPass.after.is_release
    /\ lastPass.after.decaying
    /\ lastPass.after.decay =
         (EngineConfig.m_SampleRate *
            (IF lastPass.hasSection THEN ReleaseSection.releaseCrossfade
             ELSE PipeProvider.attackSwitchCrossfade)) \div 1000
    /\ lastPass.spawned # NullSampler => lastPass.spawnedVoice.fadeIn = lastPass.after.decay
    /\ (\/ ~lastPass.hasSection
        \/ ~lastPass.poolFree
        \/ (~lastPass.vol /\ lastPass.before.m_SamplerTaskId >= 0)) =>
         lastPass.spawned = NullSampler

\* a stop without a release section: the voice fades out, none is spawned
C36_Witness ==
  /\ lastPass.op = "ProcessRelease"
  /\ lastPass.branch = "stop"
  /\ lastPass.before.p_SoundProvider # NoProvider
  /\ ~lastPass.before.is_release
  /\ ~lastPass.hasSection
  /\ lastPass.poolFree
  /\ lastPass.after.decaying

\* C38: however often StopSample is called on the handle of a voice, at most
\* one release voice is spawned for the voice while it holds its slot.
C38_OneReleasePerVoice ==
  \A s \in Samplers : samplerState.spawns[s] <= 1

\* ======================================================================
\* GOSoundOrganEngine: the polyphony limits, the condition under which a
\* release voice is dropped, and the decay of a scaled release (SpecCalc)
\* ======================================================================

\* the computations that are applied
MaxCalcOps == 2
\* the largest hard polyphony given to SetHardPolyphony
MaxHardPolyphony == 9

\* the inputs around the limits of the conditions
\* m_CurrentTime - sampler->time
CalcAges == {172 * 16 - 1, 172 * 16, 172 * 16 + 1}
CalcDropCounters == {0, 1, 2}
\* the used count of the pool while a voice is processed: the voice holds a
\* slot
CalcUsed(hard, soft) == {u \in {1, soft - 1, soft, soft + 1, hard} : 1 <= u /\ u <= hard}
CalcTimes == {0, 99, 100, 159, 160, 349, 350}
CalcLengths == {0, 48000, 96000, 248000, 480000}
CalcReleaseTails == {0, 200, 7000}

calcOther ==
  <<soundVars, lifeVars, engVars, taskVars, voiceVars, sampVars, resVars, outVars,
    openSys, jack, shut, meter, rank>>

\* void SetHardPolyphony(unsigned polyphony)
CalcSetHardPolyphony(polyphony) ==
  /\ computed.opsLeft > 0
  /\ computed' = [NoCalc(polyphony, computed.opsLeft - 1) EXCEPT
                    !.fn = "SetHardPolyphony"]
  /\ UNCHANGED calcOther

\* ProcessSampler for a due voice: whether its fader is accelerated to zero
\* (fader.StartDecreasingVolume(MsToSamples(370)))
CalcProcessSampler(is_release, limiting, used, age, drop_counter) ==
  /\ computed.opsLeft > 0
  /\ computed' =
       [NoCalc(computed.hard, computed.opsLeft - 1) EXCEPT
          !.fn = "ProcessSampler", !.is_release = is_release,
          !.limiting = limiting, !.used = used, !.age = age,
          !.drop_counter = drop_counter,
          !.result =
            IF DropsRelease(is_release, limiting, used, computed.soft, age,
                            drop_counter)
              THEN MsToSamples(370) ELSE 0]
  /\ UNCHANGED calcOther

\* CreateReleaseSampler for a voice released time ms after its start: the
\* gain_decay_length of the release voice it spawns, 0 for no decay
CalcCreateReleaseSampler(not_a_tremulant, scaled, time, length, sampleRate, releaseLength) ==
  /\ computed.opsLeft > 0
  /\ computed' =
       [NoCalc(computed.hard, computed.opsLeft - 1) EXCEPT
          !.fn = "CreateReleaseSampler", !.not_a_tremulant = not_a_tremulant,
          !.scaled = scaled, !.time = time, !.length = length,
          !.sampleRate = sampleRate, !.releaseLength = releaseLength,
          !.result =
            GainDecayLength(not_a_tremulant, scaled, time, length, sampleRate,
                            releaseLength)]
  /\ UNCHANGED calcOther

InitCalc ==
  /\ SoundSystemClosed
  /\ m_LifecycleState = IDLE
  /\ m_CurrentTime = 1
  /\ periods = 0
  /\ assertFailed = FALSE
  /\ engOp = "none"
  /\ engPrev = IDLE
  /\ engServed = "none"
  /\ engOpsLeft = 0
  /\ TaskUntouched(0)
  /\ VoicesUntouched(0)
  /\ SamplersUntouched(0)
  /\ engine = NoEngine(FALSE)
  /\ OutputUntouched(0)
  /\ openSys = NeverOpened(0)
  /\ jack = JackPortInited(0, 0, 0, 0)
  /\ shut = NoThreads(FALSE, 0, 0)
  /\ computed = NoCalc(DefaultUsageLimit, MaxCalcOps)
  /\ meter = NoMeter(0)
  /\ rank = NoRank

NextCalc ==
  \/ \E polyphony \in 0 .. MaxHardPolyphony : CalcSetHardPolyphony(polyphony)
  \/ \E is_release \in BOOLEAN, limiting \in BOOLEAN,
        used \in CalcUsed(computed.hard, computed.soft), age \in CalcAges,
        drop_counter \in CalcDropCounters :
       CalcProcessSampler(is_release, limiting, used, age, drop_counter)
  \/ \E not_a_tremulant \in BOOLEAN, scaled \in BOOLEAN, time \in CalcTimes,
        length \in CalcLengths, sampleRate \in SampleRates,
        releaseLength \in CalcReleaseTails :
       CalcCreateReleaseSampler(not_a_tremulant, scaled, time, length, sampleRate,
                                releaseLength)

SpecCalc == InitCalc /\ [][NextCalc]_vars

\* C33: with hard polyphony C the soft limit is floor(3C/4), after the
\* constructor and after every SetHardPolyphony; and the fader of a due voice
\* is accelerated to zero over 370 ms exactly when the voice is a release
\* voice and either polyphony limiting is on, the used count of the pool is
\* greater than the soft limit and the voice is older than 172 * 16 samples,
\* or its drop counter is above 1; not when the used count equals the soft
\* limit.
C33_SoftLimitDrop ==
  /\ computed.soft = (3 * computed.hard) \div 4
  /\ computed.fn = "ProcessSampler" =>
       /\ computed.result \in {0, (EngineConfig.m_SampleRate * 370) \div 1000}
       /\ computed.result # 0 <=>
            /\ computed.is_release
            /\ \/ /\ computed.limiting
                  /\ computed.used > computed.soft
                  /\ computed.age > 172 * 16
               \/ computed.drop_counter > 1

\* the time to full reverb of the release section of the last computation
CalcTtr ==
  LET raw == (60 * computed.length) \div computed.sampleRate + 40
  IN IF raw < 100 THEN 100 ELSE IF raw > 350 THEN 350 ELSE raw
\* the decay the scaling asks for
CalcScaled == CalcTtr + (6000 * computed.time) \div CalcTtr
ScaledWindchestRelease ==
  /\ computed.fn = "CreateReleaseSampler"
  /\ computed.scaled
  /\ computed.not_a_tremulant

\* C37: with scaled releases, the release voice of a windchest voice released
\* t ms after its start decays over exactly ttr + 6000 * t / ttr ms when
\* t < ttr, with ttr = min(max(60 * L / sr + 40, 100), 350) in integer
\* arithmetic; when t >= ttr the scaling schedules no decay.
C37_ScaledDecay ==
  ScaledWindchestRelease =>
    IF computed.time < CalcTtr THEN computed.result = CalcScaled
    ELSE computed.result \in {0, computed.releaseLength}

\* C37, amended: the decay is ttr + 6000 * t / ttr ms when t < ttr, unless
\* the release tail of the provider is set and shorter, in which case the
\* decay is the release tail; when t >= ttr the scaling schedules no decay
\* and the voice decays over the release tail if one is set.
C37_ScaledDecayOrTail ==
  ScaledWindchestRelease =>
    IF computed.time < CalcTtr
      THEN IF 0 < computed.releaseLength /\ computed.releaseLength < CalcScaled
             THEN computed.result = computed.releaseLength
             ELSE computed.result = CalcScaled
      ELSE computed.result = computed.releaseLength

\* a release in the middle of the range of ttr, before ttr, with a release
\* tail that is set and longer than the scaled decay
C37_Witness ==
  /\ ScaledWindchestRelease
  /\ CalcTtr = 160
  /\ computed.time = 99
  /\ computed.releaseLength = 7000
  /\ computed.result = 160 + (6000 * 99) \div 160

\* ======================================================================
\* GOSoundOrganEngine: the peak polyphony between NextPeriod on the audio
\* thread and GetMeterInfo on the thread of the GUI (SpecMeter)
\* ======================================================================

\* the calls of NextPeriod and GetMeterInfo
MaxMeterOps == 5
\* GetHardPolyphony(): m_SamplerPool.UsedSamplerCount() never exceeds it
MeterHard == 3

meterOther ==
  <<soundVars, lifeVars, engVars, taskVars, voiceVars, sampVars, resVars, outVars,
    openSys, jack, shut, computed, rank>>

MaxOf(a, b) == IF a > b THEN a ELSE b

\* NextPeriod up to the comparison: usedSamplers = UsedSamplerCount() and
\* usedSamplers > m_UsedPolyphony.load(); when it is not greater the call
\* stores nothing and returns
NextPeriodCompare(usedSamplers) ==
  /\ meter.opsLeft > 0
  /\ meter.np.pc = "idle"
  /\ IF usedSamplers > meter.m_UsedPolyphony
       THEN meter' = [meter EXCEPT !.np = [pc |-> "store", usedSamplers |-> usedSamplers],
                                   !.opsLeft = @ - 1]
       ELSE meter' = [meter EXCEPT !.np = [pc |-> "idle", usedSamplers |-> usedSamplers],
                                   !.unread = MaxOf(@, usedSamplers),
                                   !.opsLeft = @ - 1]
  /\ UNCHANGED meterOther

\* m_UsedPolyphony.store(usedSamplers); m_Scheduler.Reset(); the call returns
NextPeriodStore ==
  /\ meter.np.pc = "store"
  /\ meter' = [meter EXCEPT !.m_UsedPolyphony = meter.np.usedSamplers,
                            !.np.pc = "idle",
                            !.unread = MaxOf(@, meter.np.usedSamplers)]
  /\ UNCHANGED meterOther

\* GetMeterInfo up to the load: m_MeterInfo[0] = m_UsedPolyphony.load() /
\* (double)GetHardPolyphony(); reported is m_MeterInfo[0] * GetHardPolyphony()
GetMeterInfoLoad ==
  /\ meter.opsLeft > 0
  /\ meter.gm.pc = "idle"
  /\ meter' = [meter EXCEPT !.gm = [pc |-> "store", loaded |-> meter.m_UsedPolyphony],
                            !.reported = meter.m_UsedPolyphony,
                            !.owed = meter.unread,
                            !.unread = 0,
                            !.opsLeft = @ - 1]
  /\ UNCHANGED meterOther

\* m_UsedPolyphony.store(0); the call returns
GetMeterInfoStore ==
  /\ meter.gm.pc = "store"
  /\ meter' = [meter EXCEPT !.m_UsedPolyphony = 0, !.gm.pc = "idle"]
  /\ UNCHANGED meterOther

InitMeter ==
  /\ SoundSystemClosed
  /\ m_LifecycleState = WORKING
  /\ m_CurrentTime = 1
  /\ periods = 0
  /\ assertFailed = FALSE
  /\ engOp = "none"
  /\ engPrev = IDLE
  /\ engServed = "none"
  /\ engOpsLeft = 0
  /\ TaskUntouched(0)
  /\ VoicesUntouched(0)
  /\ SamplersUntouched(0)
  /\ engine = NoEngine(FALSE)
  /\ OutputUntouched(0)
  /\ openSys = NeverOpened(0)
  /\ jack = JackPortInited(0, 0, 0, 0)
  /\ shut = NoThreads(FALSE, 0, 0)
  /\ computed = NoCalc(DefaultUsageLimit, 0)
  /\ meter = NoMeter(MaxMeterOps)
  /\ rank = NoRank

NextMeter ==
  \/ \E usedSamplers \in 0 .. MeterHard : NextPeriodCompare(usedSamplers)
  \/ NextPeriodStore
  \/ GetMeterInfoLoad
  \/ GetMeterInfoStore

SpecMeter == InitMeter /\ [][NextMeter]_vars

\* C39: the polyphony GetMeterInfo reports (m_MeterInfo[0] times the hard
\* polyphony) is at least the usage of every NextPeriod that has returned
\* since GetMeterInfo last read the counter, and at most the hard
\* polyphony: no peak of NextPeriod is lost between the load and the
\* store(0) of GetMeterInfo.
C39_PeakReported ==
  /\ meter.reported >= meter.owed
  /\ meter.reported <= MeterHard

\* ======================================================================
\* GORank: the velocity of a note under the stops that play it (SpecRank)
\* ======================================================================

\* the pipes of the rank
MaxRankPipes == 2
\* the stops that register with the rank
MaxRankStops == 2
\* the largest velocity of a key
MaxKeyVelocity == 2
\* the pipe of a note has not had SetVelocity called since PreparePlayback
NeverSet == [called |-> FALSE, velocity |-> 0]

rankOther ==
  <<soundVars, lifeVars, engVars, taskVars, voiceVars, sampVars, resVars, outVars,
    openSys, jack, shut, computed, meter>>

\* std::vector::resize: the elements that stay keep their values, the new
\* ones are value-initialized
ResizeTo(vec, n, fill) == [i \in 1 .. n |-> IF i <= Len(vec) THEN vec[i] ELSE fill]

\* void GORank::Resize()
Resize(r) ==
  LET velocities == ResizeTo(r.m_NoteStopVelocities, r.nPipes, <<>>)
  IN [r EXCEPT
        !.m_MaxNoteVelocities = ResizeTo(@, r.nPipes, 0),
        !.m_NoteStopVelocities =
          [i \in 1 .. r.nPipes |-> ResizeTo(velocities[i], r.m_StopCount, 0)],
        !.pipeVelocity = ResizeTo(@, r.nPipes, NeverSet)]

\* *std::max_element(allStopVelocities.begin(), allStopVelocities.end())
MaxElement(allStopVelocities) ==
  CHOOSE v \in {allStopVelocities[i] : i \in 1 .. Len(allStopVelocities)} :
    \A i \in 1 .. Len(allStopVelocities) : allStopVelocities[i] <= v

\* a SetKey that never looks for the new maximum among the other stops
MaxVelocityKept(velocity, maxVelocity, allStopVelocities) ==
  IF velocity >= maxVelocity THEN velocity ELSE maxVelocity

\* the new max velocity of the pipe, allStopVelocities holding the new
\* velocity of this stop already
MaxVelocityAfter(velocity, maxVelocity, allStopVelocities) ==
  IF velocity >= maxVelocity THEN velocity ELSE MaxElement(allStopVelocities)

\* void GORank::AddPipe(GOPipe *pipe)
AddPipe ==
  /\ ~rank.prepared
  /\ rank.nPipes < MaxRankPipes
  /\ rank' = [Resize([rank EXCEPT !.nPipes = @ + 1]) EXCEPT
                !.last = [NoRank.last EXCEPT !.op = "AddPipe"]]
  /\ UNCHANGED rankOther

\* unsigned GORank::RegisterStop(GOStop *stop)
RegisterStop ==
  /\ ~rank.prepared
  /\ rank.m_StopCount < MaxRankStops
  /\ rank' = [Resize([rank EXCEPT !.m_StopCount = @ + 1]) EXCEPT
                !.last = [NoRank.last EXCEPT !.op = "RegisterStop"]]
  /\ UNCHANGED rankOther

\* void GORank::PreparePlayback()
RankPreparePlayback ==
  /\ rank.nPipes > 0
  /\ rank.m_StopCount > 0
  /\ rank' = [rank EXCEPT
                !.m_MaxNoteVelocities = [i \in 1 .. Len(@) |-> 0],
                !.m_NoteStopVelocities =
                  [i \in 1 .. Len(@) |-> [j \in 1 .. Len(@[i]) |-> 0]],
                !.pipeVelocity = [i \in 1 .. Len(@) |-> NeverSet],
                !.prepared = TRUE,
                !.last = [NoRank.last EXCEPT !.op = "PreparePlayback"]]
  /\ UNCHANGED rankOther

\* void GORank::SetKey(int note, unsigned velocity, unsigned stopID); the
\* vectors are indexed from 1 here
SetKey(note, velocity, stopID) ==
  /\ rank.prepared
  /\ stopID < rank.m_StopCount
  /\ IF note >= 0 /\ note < rank.nPipes
       THEN LET oldThisStopVelocity == rank.m_NoteStopVelocities[note + 1][stopID + 1]
                maxVelocity == rank.m_MaxNoteVelocities[note + 1]
                allStopVelocities ==
                  [rank.m_NoteStopVelocities[note + 1] EXCEPT ![stopID + 1] = velocity]
                changed == velocity > maxVelocity \/ velocity < oldThisStopVelocity
                newMax == MaxVelocityAfter(velocity, maxVelocity, allStopVelocities)
            IN rank' =
                 [rank EXCEPT
                    !.m_NoteStopVelocities[note + 1] = allStopVelocities,
                    !.m_MaxNoteVelocities[note + 1] = IF changed THEN newMax ELSE @,
                    !.pipeVelocity[note + 1] =
                      IF changed THEN [called |-> TRUE, velocity |-> newMax] ELSE @,
                    !.last = [op |-> "SetKey", note |-> note, velocity |-> velocity,
                              stopID |-> stopID, oldMax |-> maxVelocity,
                              called |-> changed]]
       ELSE rank' = [rank EXCEPT
                       !.last = [op |-> "SetKey", note |-> note, velocity |-> velocity,
                                 stopID |-> stopID, oldMax |-> 0, called |-> FALSE]]
  /\ UNCHANGED rankOther

InitRank ==
  /\ SoundSystemClosed
  /\ m_LifecycleState = IDLE
  /\ m_CurrentTime = 1
  /\ periods = 0
  /\ assertFailed = FALSE
  /\ engOp = "none"
  /\ engPrev = IDLE
  /\ engServed = "none"
  /\ engOpsLeft = 0
  /\ TaskUntouched(0)
  /\ VoicesUntouched(0)
  /\ SamplersUntouched(0)
  /\ engine = NoEngine(FALSE)
  /\ OutputUntouched(0)
  /\ openSys = NeverOpened(0)
  /\ jack = JackPortInited(0, 0, 0, 0)
  /\ shut = NoThreads(FALSE, 0, 0)
  /\ computed = NoCalc(DefaultUsageLimit, 0)
  /\ meter = NoMeter(0)
  /\ rank = NoRank

NextRank ==
  \/ AddPipe
  \/ RegisterStop
  \/ RankPreparePlayback
  \/ \E note \in -1 .. MaxRankPipes, velocity \in 0 .. MaxKeyVelocity,
        stopID \in 0 .. (MaxRankStops - 1) :
       SetKey(note, velocity, stopID)

SpecRank == InitRank /\ [][NextRank]_vars

\* C40: after PreparePlayback and any sequence of SetKey calls with valid
\* note and stop indices, the max velocity of every note is the maximum of
\* the velocities of the note over all registered stops, and if SetVelocity
\* of the pipe was never called the maximum is still 0, otherwise the last
\* call carried the maximum.
C40_MaxVelocity ==
  rank.prepared =>
    \A n \in 1 .. rank.nPipes :
      /\ Len(rank.m_NoteStopVelocities[n]) = rank.m_StopCount
      /\ rank.m_MaxNoteVelocities[n] = MaxElement(rank.m_NoteStopVelocities[n])
      /\ IF rank.pipeVelocity[n] = NeverSet
           THEN rank.m_MaxNoteVelocities[n] = 0
           ELSE rank.pipeVelocity[n].velocity = rank.m_MaxNoteVelocities[n]

\* the stop that held the maximum of a note has lowered its velocity and the
\* new maximum is the velocity of another stop
C40_Witness ==
  /\ rank.last.op = "SetKey"
  /\ rank.last.called
  /\ rank.last.note >= 0
  /\ rank.last.note < rank.nPipes
  /\ rank.last.velocity < rank.m_MaxNoteVelocities[rank.last.note + 1]
  /\ rank.m_MaxNoteVelocities[rank.last.note + 1] < rank.last.oldMax
  /\ rank.pipeVelocity[rank.last.note + 1].velocity =
       rank.m_MaxNoteVelocities[rank.last.note + 1]

====
